---- MODULE Spec2Model ----
(***************************************************************************)
(* Model of the Backtesting page of gse-signal-insight                     *)
(* (src/unnamed/part_001, component Backtesting) together with the         *)
(* public.backtests table it writes to.                                    *)
(*                                                                         *)
(* Dates are day numbers counted from 2024-01-01 (the form's default       *)
(* start date); a date-only ISO string parses to UTC midnight, so the      *)
(* millisecond difference of two dates is a whole number of days.          *)
(* Money and percentages are exact rationals <<num, den>> until the code   *)
(* rounds them.                                                            *)
(*                                                                         *)
(* A handler is one step up to each await on the persistence service; the  *)
(* service's work on a request and the handler's resumption on the reply   *)
(* are one step, except for the deferred completion of a run, whose timer, *)
(* update and resumption are steps of their own.  The form's contents are  *)
(* the input of the click on Run Backtest.                                 *)
(***************************************************************************)
EXTENDS Integers, Sequences, FiniteSets, TLC

(***************************************************************************)
(* Bounds of the model                                                     *)
(***************************************************************************)
\* number of backtest rows ever inserted (ids are never reused)
MaxBacktests == 2
\* longest date range (in days) a modelled run is started with
MaxDays == 17

\* number of rows of public.stocks
MaxStocks == 3
\* number of rows ever inserted into public.portfolios by the writers
MaxPositionRows == 3
\* number of alerts of the signed-in user in public.alerts
MaxAlerts == 2

(***************************************************************************)
(* Values                                                                  *)
(***************************************************************************)
NULL == [null |-> TRUE]
NaN == <<"NaN">>
Infinity == <<"Infinity">>
NegInfinity == <<"-Infinity">>

\* the signed-in user of the page (the page renders no form without one)
User == "u1"

\* another user of the service, signed in elsewhere
OtherUser == "u2"
Users == {User, OtherUser}

\* the user_id of a row that has none (NULL)
NoUser == "NULL"

\* weekly returns (Math.random() - 0.5) * 0.04, in percent: -2 <= r < 2
Returns == {-2, 1}

\* the sequences of weekly returns of a run of at most n points
DrawSeqs(n) == UNION {[1..k -> Returns] : k \in 0..n}

\* Math.random() draws of the four placeholder statistics, in hundredths
StatDraw(u) == [sharpe |-> u, drawdown |-> u, win |-> u, trades |-> u]
StatDraws == {StatDraw(50)}
SimStatDraws == {StatDraw(0), StatDraw(50)}

\* values the user types into the form fields
Names == {"", "bt"}
EndDates == {-7, 0, 5}
Capitals == {0, 100000}
Stocks == {"s1"}

\* values of the strategy and rebalance selects and of the three risk
\* management inputs
Strategies == {"buy_and_hold", "momentum"}
RebalanceFrequencies == {"monthly", "weekly"}
RiskSettings ==
  {[stopLoss |-> 10, takeProfit |-> 20, maxPositionSize |-> 20],
   [stopLoss |-> 5, takeProfit |-> 50, maxPositionSize |-> 100]}

\* the date ranges and capitals of the runs whose series are compared (365 is
\* the form's default end date, beyond MaxDays)
SimEndDates == {7, 17, 365}
SimCapitals == {0, 100, 678, 100000}

(***************************************************************************)
(* Arithmetic helpers                                                      *)
(***************************************************************************)
Abs(n) == IF n < 0 THEN -n ELSE n

RECURSIVE GCD(_, _)
GCD(a, b) == IF b = 0 THEN a ELSE GCD(b, a % b)

\* the rational n/d in lowest terms, d > 0
Rat(n, d) ==
  LET g == GCD(Abs(n), d)
  IN  IF n = 0 THEN <<0, 1>> ELSE <<n \div g, d \div g>>

\* q * (1 + r/100)
RatTimesReturn(q, r) == Rat(q[1] * (100 + r), q[2] * 100)

\* Math.round: the nearest integer, halves towards +Infinity
MathRound(q) ==
  (q[1] \div q[2]) + (IF 2 * (q[1] % q[2]) >= q[2] THEN 1 ELSE 0)

\* Number.prototype.toFixed(digits) of the finite rational n/d, as the
\* integer count of 10^-digits units (halves away from zero)
ToFixed(n, d, scale) ==
  LET m == Abs(n) * scale
      r == (2 * m + d) \div (2 * d)
  IN  <<"num", IF n < 0 THEN -r ELSE r>>

(***************************************************************************)
(* generateMockBacktestResults                                             *)
(***************************************************************************)
\* days = Math.floor((end - start) / 86400000)
Days(p) == p.endDate - p.startDate

\* the loop with  i < days  as its condition
NumPoints_Exclusive(p) == IF Days(p) <= 0 THEN 0 ELSE (Days(p) - 1) \div 7 + 1

\* number of iterations of  for (i = 0; i <= days; i += 7)
NumPoints(p) == IF Days(p) < 0 THEN 0 ELSE Days(p) \div 7 + 1

\* (Math.pow(1.08, i / 365) - 1) in millionths, for the weekly offsets i
PowScale == 1000000
Pow108Frac(i) ==
  CASE i = 0  -> 0
    [] i = 7  -> 1477
    [] i = 14 -> 2956
    [] i = 21 -> 4438
    [] i = 28 -> 5921

\* Math.round(initialCapital * Math.pow(1.08, i / 365))
Benchmark_Decay(cap, i) == cap - MathRound(<<cap * Pow108Frac(i), PowScale>>)

Benchmark(cap, i) == cap + MathRound(<<cap * Pow108Frac(i), PowScale>>)

\* portfolioValue after the k-th iteration: the random return is applied
\* before the point is pushed
RECURSIVE PortfolioValue(_, _, _)
PortfolioValue(cap, draws, k) ==
  IF k = 0 THEN <<cap, 1>>
  ELSE RatTimesReturn(PortfolioValue(cap, draws, k - 1), draws[k])

PerformanceData_Tracking(p, draws) ==
  [k \in 1..NumPoints(p) |->
     [date |-> p.startDate + 7 * (k - 1),
      portfolioValue |-> MathRound(PortfolioValue(p.initialCapital, draws, k)),
      benchmark |-> MathRound(PortfolioValue(p.initialCapital, draws, k))]]

PerformanceData(p, draws) ==
  [k \in 1..NumPoints(p) |->
     [date |-> p.startDate + 7 * (k - 1),
      portfolioValue |-> MathRound(PortfolioValue(p.initialCapital, draws, k)),
      benchmark |-> Benchmark(p.initialCapital, 7 * (k - 1))]]

\* ((finalValue - initialCapital) / initialCapital * 100).toFixed(2)
TotalReturn(finalValue, cap) ==
  IF cap = 0 THEN NaN
  ELSE IF cap > 0 THEN ToFixed((finalValue - cap) * 100, cap, 100)
  ELSE ToFixed((cap - finalValue) * 100, -cap, 100)

\* ((Math.pow(finalValue / initialCapital, 365 / days) - 1) * 100).toFixed(2)
\* For days > 0 the power is kept as a term of its three arguments; for
\* days = 0 the exponent is Infinity and Math.pow yields Infinity, 0 or NaN.
AnnualizedReturn(finalValue, cap, days) ==
  IF cap = 0 THEN NaN
  ELSE IF days > 0 THEN <<"pow", finalValue, cap, days>>
  ELSE IF Abs(finalValue) > Abs(cap) THEN Infinity
  ELSE IF Abs(finalValue) = Abs(cap) THEN NaN
  ELSE <<"num", -10000>>

\* performanceData[performanceData.length - 1].portfolioValue reads a
\* property of undefined when the loop pushed nothing
Throws(p) == NumPoints(p) = 0

GenerateMockBacktestResults_Rebalanced(p, draws, stat) ==
  LET performanceData == PerformanceData(p, draws)
      finalValue == performanceData[Len(performanceData)].portfolioValue
  IN  [performanceData |-> performanceData,
       metrics |->
         [totalReturn |-> TotalReturn(finalValue, p.initialCapital),
          annualizedReturn |->
            AnnualizedReturn(finalValue, p.initialCapital, Days(p)),
          sharpeRatio |-> <<"num", 120 + (stat.sharpe * 80) \div 100>>,
          maxDrawdown |-> <<"num", 500 + stat.drawdown * 15>>,
          winRate |-> <<"num", 550 + (stat.win * 20) \div 10>>,
          totalTrades |->
            IF p.rebalanceFrequency = "weekly"
            THEN 4 * ((stat.trades * 50) \div 100 + 20)
            ELSE (stat.trades * 50) \div 100 + 20,
          finalValue |-> finalValue]]

GenerateMockBacktestResults(p, draws, stat) ==
  LET performanceData == PerformanceData(p, draws)
      finalValue == performanceData[Len(performanceData)].portfolioValue
  IN  [performanceData |-> performanceData,
       metrics |->
         [totalReturn |-> TotalReturn(finalValue, p.initialCapital),
          annualizedReturn |->
            AnnualizedReturn(finalValue, p.initialCapital, Days(p)),
          sharpeRatio |-> <<"num", 120 + (stat.sharpe * 80) \div 100>>,
          maxDrawdown |-> <<"num", 500 + stat.drawdown * 15>>,
          winRate |-> <<"num", 550 + (stat.win * 20) \div 10>>,
          totalTrades |-> (stat.trades * 50) \div 100 + 20,
          finalValue |-> finalValue]]

(***************************************************************************)
(* State                                                                   *)
(***************************************************************************)
VARIABLES
  backtests,         \* useState<BacktestResult[]>: the history list
  selectedBacktest,  \* useState<BacktestResult | null>
  loading,           \* useState(false)
  toast,             \* the toast shown last, NULL before the first
  db,                \* public.backtests: id -> row
  nextId,            \* number of rows inserted so far, plus one
  runs,              \* id -> the setTimeout callback of that run: the
                     \* params it closed over and where it stands
  fetchSent,         \* fetchBacktests queries not yet answered
  otherTab           \* the same page open in a second tab of the browser:
                     \* the state of that instance of the component

\* the Portfolio page (src/src/pages/Portfolio.tsx), the Watchlist page
\* (src/unnamed/part_001, component Watchlist) and the tables they read
VARIABLES
  stocks,            \* public.stocks: stock id -> row
  portfolios,        \* public.portfolios: id -> row
  nextPositionId,    \* number of rows inserted into it so far, plus one
  tradesTable,       \* public.trades: the rows, latest first
  watchlists,        \* public.watchlists: id -> row
  positions,         \* Portfolio: useState<PortfolioPosition[]>([])
  trades,            \* Portfolio: useState<Trade[]>([])
  pfLoading,         \* Portfolio: useState(true), loading
  pfToast,           \* Portfolio: the toast shown last
  watchlistStocks,   \* Watchlist: useState<Stock[]>([])
  portfolioStocks,   \* Watchlist: useState<Portfolio[]>([])
  wlLoading          \* Watchlist: useState(true), loading

\* the alerts widget of the dashboard (src/src/components/AlertsManager.tsx),
\* the Alerts page (src/unnamed/part_000, component Alerts) and their table
VARIABLES
  alertsTable,       \* public.alerts: id -> row
  widgetAlerts,      \* AlertsManager: useState<Alert[]>([]), alerts
  widgetLoading,     \* AlertsManager: useState(true), loading
  widgetToast,       \* AlertsManager: the toast shown last
  alerts,            \* Alerts: useState<Alert[]>([])
  alertsLoading,     \* Alerts: useState(true), loading
  alertsToast        \* Alerts: the toast shown last

\* the persistence service as any session can address it
VARIABLES
  reply              \* the answer to the last request sent to a table

\* the calls of handlers that are awaiting the reply to their request
VARIABLES
  removing,          \* Portfolio.removePosition: position id -> the call
  flagging,          \* AlertsManager.markAsRead and dismissAlert:
                     \* <<alert id, flag>> -> the call
  fetched,           \* Backtesting.fetchBacktests: the answers of the
                     \* service that the page has not handled yet
  deleting           \* Backtesting.deleteBacktest: backtest id -> the call

\* the Dashboard page (src/src/pages/Dashboard.tsx) and the charts it renders
\* (src/src/components/PriceChart.tsx, component DashboardCharts)
VARIABLES
  dashStocks,        \* Dashboard: useState<Stock[]>([]), stocks; the array
                     \* is the one DashboardCharts receives as its prop
  dashLoading,       \* Dashboard: useState(true), loading
  marketData,        \* DashboardCharts: marketData of the last render
  volumeData,        \* DashboardCharts: volumeData of the last render
  topStock           \* DashboardCharts: the stock of the top chart in the
                     \* last render, <<>> when no chart was rendered

\* a PriceChart (src/src/components/PriceChart.tsx) and the table it reads
VARIABLES
  stockPrices,       \* public.stock_prices: the rows
  stockId,           \* the prop stockId of the render in force
  timeRange,         \* useState<'1D' | '1W' | '1M' | '3M' | '1Y'>('1D')
  priceData,         \* useState<PriceData[]>([])
  chartLoading,      \* useState(true), loading
  priceCalls,        \* the calls of fetchPriceData awaiting their answer
  compact            \* the prop compact

\* public.user_api_keys and the calls of its two functions
VARIABLES
  userApiKeys,       \* public.user_api_keys: the rows
  keyCalls           \* the calls made so far, each with what it returned

backtestVars == <<backtests, selectedBacktest, loading, toast, db, nextId,
                  runs, fetchSent>>

tableVars == <<stocks, portfolios, nextPositionId, tradesTable, watchlists>>
portfolioVars == <<positions, trades, pfLoading, pfToast>>
watchlistVars == <<watchlistStocks, portfolioStocks, wlLoading>>
holdingVars == <<tableVars, portfolioVars, watchlistVars>>

widgetVars == <<widgetAlerts, widgetLoading, widgetToast>>
alertsPageVars == <<alerts, alertsLoading, alertsToast>>
alertVars == <<alertsTable, widgetVars, alertsPageVars>>

\* the answer of the service and the calls awaiting one: what no handler
\* modelled as one step reads or writes
serviceVars == <<reply>>
callVars == <<removing, flagging, fetched, deleting>>

dashboardVars == <<dashStocks, dashLoading, marketData, volumeData, topStock>>
chartVars == <<stockPrices, stockId, timeRange, priceData, chartLoading,
               priceCalls, compact>>
keyVars == <<userApiKeys, keyCalls>>

\* what no handler of the pages and no request modelled before the Dashboard
\* reads or writes
furtherVars == <<dashboardVars, chartVars, keyVars>>

\* what no handler of the Backtesting page reads or writes
outsideBacktesting == <<holdingVars, alertVars, otherTab, serviceVars, callVars,
     furtherVars>>

\* what no handler of the Portfolio and Watchlist pages reads or writes
outsideHoldings == <<backtestVars, alertVars, otherTab, serviceVars, callVars,
     furtherVars>>

\* what no handler of the alerts widget and the Alerts page writes
outsideAlerts == <<backtestVars, holdingVars, otherTab, serviceVars, callVars,
     furtherVars>>

vars == <<backtestVars, outsideBacktesting>>

pageVars == <<backtests, selectedBacktest, loading, toast>>
netVars == <<runs, fetchSent>>

\* the toasts of the page
ToastNameRequired ==
  [title |-> "Error", description |-> "Please provide a name for your backtest",
   variant |-> "destructive"]
ToastNoStocksSelected ==
  [title |-> "Error", description |-> "Please select at least one stock",
   variant |-> "destructive"]
ToastStartFailed ==
  [title |-> "Error", description |-> "Failed to start backtest",
   variant |-> "destructive"]
ToastStarted(name) ==
  [title |-> "Backtest Started", description |-> <<"Running backtest: ", name>>,
   variant |-> "default"]
ToastComplete(name) ==
  [title |-> "Backtest Complete", description |-> <<name, " has finished running">>,
   variant |-> "default"]
ToastDeleted ==
  [title |-> "Backtest Deleted", description |-> "Backtest has been removed",
   variant |-> "default"]
ToastDeleteFailed ==
  [title |-> "Error", description |-> "Failed to delete backtest",
   variant |-> "destructive"]

\* useState<BacktestParams>({...}) of the component
DefaultParams ==
  [name |-> "", startDate |-> 0, endDate |-> 365, initialCapital |-> 100000,
   strategy |-> "buy_and_hold", stocks |-> {},
   riskManagement |-> [stopLoss |-> 10, takeProfit |-> 20,
                       maxPositionSize |-> 20],
   rebalanceFrequency |-> "monthly"]

\* an instance of the component that has mounted with a signed-in user:
\* useEffect has called fetchBacktests, whose query is on its way
Mounted ==
  [backtests |-> <<>>, selectedBacktest |-> NULL, loading |-> FALSE,
   toast |-> NULL, runs |-> <<>>, fetchSent |-> 1]

BacktestingInit ==
  /\ backtests = Mounted.backtests
  /\ selectedBacktest = Mounted.selectedBacktest
  /\ loading = Mounted.loading
  /\ toast = Mounted.toast
  /\ db = <<>>
  /\ nextId = 1
  /\ runs = Mounted.runs
  /\ fetchSent = Mounted.fetchSent
  /\ otherTab = Mounted

\* the Portfolio and the Watchlist page as their useState calls leave them
PortfolioInit ==
  /\ positions = <<>>
  /\ trades = <<>>
  /\ pfLoading = TRUE
  /\ pfToast = NULL

WatchlistInit ==
  /\ watchlistStocks = <<>>
  /\ portfolioStocks = <<>>
  /\ wlLoading = TRUE

\* the tables of the holdings before any row is written
NoHoldings ==
  /\ stocks = <<>>
  /\ portfolios = <<>>
  /\ nextPositionId = 1
  /\ tradesTable = <<>>
  /\ watchlists = <<>>

\* the alerts widget and the Alerts page as their useState calls leave them
AlertsInit ==
  /\ widgetAlerts = <<>>
  /\ widgetLoading = TRUE
  /\ widgetToast = NULL
  /\ alerts = <<>>
  /\ alertsLoading = TRUE
  /\ alertsToast = NULL

\* nothing has been asked of the service and no handler awaits a reply
NoCalls ==
  /\ reply = NULL
  /\ removing = <<>>
  /\ flagging = <<>>
  /\ fetched = <<>>
  /\ deleting = <<>>

\* the Dashboard page as its useState calls leave it, before any render of
\* DashboardCharts
DashboardInit ==
  /\ dashStocks = <<>>
  /\ dashLoading = TRUE
  /\ marketData = <<>>
  /\ volumeData = <<>>
  /\ topStock = <<>>

\* useState<PriceData[]>([])
NoData == [mock |-> FALSE, rows |-> <<>>]

\* no PriceChart is mounted (stockId 0 is the id of no stock) and
\* public.stock_prices is empty
ChartInit ==
  /\ stockPrices = <<>>
  /\ stockId = 0
  /\ timeRange = "1D"
  /\ priceData = NoData
  /\ chartLoading = TRUE
  /\ priceCalls = <<>>
  /\ compact = FALSE

\* public.user_api_keys as CREATE TABLE leaves it, and no call made
KeysInit ==
  /\ userApiKeys = <<>>
  /\ keyCalls = <<>>

\* nothing has been asked of the service, no handler awaits a reply, and the
\* Dashboard is not open
QuietInit ==
  /\ NoCalls
  /\ DashboardInit
  /\ ChartInit
  /\ KeysInit

Init ==
  /\ BacktestingInit
  /\ QuietInit
  /\ PortfolioInit
  /\ WatchlistInit
  /\ NoHoldings
  /\ AlertsInit
  /\ alertsTable = <<>>

(***************************************************************************)
(* The persistence service: public.backtests                               *)
(***************************************************************************)
\* insert({user_id, name, parameters, status: 'running'}): id, results and
\* completed_at take the column defaults; created_at is now()
InsertRow(d, id, user, p) ==
  [i \in DOMAIN d \cup {id} |->
     IF i = id
     THEN [id |-> id, user_id |-> user, name |-> p.name, parameters |-> p,
           status |-> "running", results |-> NULL, completed_at |-> NULL,
           created_at |-> id]
     ELSE d[i]]

\* new Date().toISOString() of the callback: a timestamp, never null
Now == [iso |-> "now"]

\* the update without its  .eq('id', id)
UpdateRow_EveryRow(d, id, results) ==
  [i \in DOMAIN d |->
     [d[i] EXCEPT !.status = "completed", !.results = results,
                  !.completed_at = Now]]

\* the update of the status alone
UpdateRow_StatusOnly(d, id, results) ==
  [i \in DOMAIN d |->
     IF i = id THEN [d[i] EXCEPT !.status = "completed"] ELSE d[i]]

\* update({status: 'completed', results, completed_at}).eq('id', id)
UpdateRow(d, id, results) ==
  [i \in DOMAIN d |->
     IF i = id
     THEN [d[i] EXCEPT !.status = "completed", !.results = results,
                       !.completed_at = Now]
     ELSE d[i]]

\* delete().eq('id', id)
DeleteRow(d, id) == [i \in DOMAIN d \ {id} |-> d[i]]

\* select('*').eq('user_id', user).order('created_at', {ascending: false})
RECURSIVE SelectFrom(_, _, _)
SelectFrom(d, user, i) ==
  IF i = 0 THEN <<>>
  ELSE IF i \in DOMAIN d /\ d[i].user_id = user
       THEN <<d[i]>> \o SelectFrom(d, user, i - 1)
       ELSE SelectFrom(d, user, i - 1)

SelectBacktests(d, user) == SelectFrom(d, user, MaxBacktests + 1)

\* gen_random_uuid(): an id no row has had
NewId_Reused(d, n) == IF 1 \in DOMAIN d THEN 1 ELSE n

NewId(d, n) == n

(***************************************************************************)
(* The form                                                                *)
(***************************************************************************)
\* useState<BacktestParams>: the contents the user can give the form through
\* its onChange handlers (each is setParams({...params, field: value}));
\* nothing but runBacktest reads them, so they are the input of that step
FormParams(n, e, c, s) ==
  [DefaultParams EXCEPT !.name = n, !.endDate = e, !.initialCapital = c,
                        !.stocks = s]

\* at most one of the date range and the capital is out of the ordinary
ParamChoices ==
  {p \in {FormParams(n, e, c, s) :
            n \in Names, e \in EndDates, c \in Capitals, s \in SUBSET Stocks} :
     p.endDate > p.startDate \/ p.initialCapital > 0}

SimParamChoices ==
  {FormParams("bt", e, c, Stocks) : e \in SimEndDates, c \in SimCapitals}

\* a form that is complete and differs in the strategy, the rebalance
\* frequency and the risk management inputs only
ConfigParams(st, rf, rm) ==
  [FormParams("bt", 7, 100000, Stocks)
     EXCEPT !.strategy = st, !.rebalanceFrequency = rf, !.riskManagement = rm]

\* the defaults, each of the three changed alone, and all three changed
ConfigParamChoices ==
  {p \in {ConfigParams(st, rf, rm) :
            st \in Strategies, rf \in RebalanceFrequencies,
            rm \in RiskSettings} :
     Cardinality({f \in {"strategy", "rebalanceFrequency", "riskManagement"} :
                    p[f] # DefaultParams[f]}) # 2}

(***************************************************************************)
(* runBacktest                                                             *)
(***************************************************************************)
\* where a setTimeout callback stands
\*   "timer"          scheduled, not yet run
\*   "update_ok"      awaiting the reply of its update, which succeeded
\*   "update_error"   awaiting the reply of its update, which failed
\*   "done"           ran to its end
\*   "threw_generate" ended by the exception of generateMockBacktestResults
\*   "threw_update"   ended by  throw updateError
Schedule(r, id, p) ==
  [i \in DOMAIN r \cup {id} |-> IF i = id THEN [params |-> p, pc |-> "timer"]
                                         ELSE r[i]]

\* the early returns of runBacktest: the toast of the check that rejects p,
\* NULL when p passes (the page has a signed-in user)
Validate_SkipStocks(p) == IF p.name = "" THEN ToastNameRequired ELSE NULL

Validate(p) ==
  IF p.name = "" THEN ToastNameRequired
  ELSE IF Cardinality(p.stocks) = 0 THEN ToastNoStocksSelected
  ELSE NULL

\* the click on Run Backtest with the form holding p, through the reply of
\* the insert (ok: the service accepted it); the button is disabled while
\* loading
RunBacktest(p) ==
  /\ ~loading
  /\ IF Validate(p) # NULL
     THEN /\ toast' = Validate(p)
          /\ UNCHANGED <<backtests, selectedBacktest, loading, db, nextId,
                         netVars>>
     ELSE /\ nextId <= MaxBacktests
          /\ Days(p) <= MaxDays
          /\ \E ok \in BOOLEAN :
               IF ok
               THEN LET id == NewId(db, nextId)
                    IN  /\ db' = InsertRow(db, id, User, p)
                        /\ nextId' = nextId + 1
                        /\ runs' = Schedule(runs, id, p)
                        /\ toast' = ToastStarted(p.name)
                        /\ loading' = TRUE
               ELSE /\ toast' = ToastStartFailed
                    /\ loading' = FALSE
                    /\ UNCHANGED <<db, nextId, runs>>
          /\ UNCHANGED <<backtests, selectedBacktest, fetchSent>>
  /\ UNCHANGED outsideBacktesting

\* the timer of run id fires: the callback computes the mock results from
\* the Math.random() draws it makes and sends its update, which the service
\* applies (ok) or rejects
TimerFire(id, draws, stat, ok) ==
  /\ id \in DOMAIN runs
  /\ runs[id].pc = "timer"
  /\ Len(draws) = NumPoints(runs[id].params)
  /\ LET p == runs[id].params
     IN  IF Throws(p)
         THEN /\ runs' = [runs EXCEPT ![id].pc = "threw_generate"]
              /\ UNCHANGED db
         ELSE IF ok
         THEN /\ db' = UpdateRow(db, id,
                         GenerateMockBacktestResults(p, draws, stat))
              /\ runs' = [runs EXCEPT ![id].pc = "update_ok"]
         ELSE /\ runs' = [runs EXCEPT ![id].pc = "update_error"]
              /\ UNCHANGED db
  /\ UNCHANGED <<pageVars, nextId, fetchSent, outsideBacktesting>>

\* the callback resumes after  await ... update(...)
CallbackResume(id) ==
  /\ id \in DOMAIN runs
  /\ \/ /\ runs[id].pc = "update_error"
        /\ runs' = [runs EXCEPT ![id].pc = "threw_update"]
        /\ UNCHANGED <<toast, fetchSent, loading>>
     \/ /\ runs[id].pc = "update_ok"
        /\ runs' = [runs EXCEPT ![id].pc = "done"]
        /\ toast' = ToastComplete(runs[id].params.name)
        /\ fetchSent' = fetchSent + 1
        /\ loading' = FALSE
  /\ UNCHANGED <<backtests, selectedBacktest, db, nextId, outsideBacktesting>>

(***************************************************************************)
(* fetchBacktests                                                          *)
(***************************************************************************)
\* a query of fetchBacktests is answered and the function resumes:
\* setBacktests(data || []), or console.error when the query failed
FetchBacktests ==
  /\ fetchSent > 0
  /\ fetchSent' = fetchSent - 1
  /\ \E ok \in BOOLEAN :
       backtests' = IF ok THEN SelectBacktests(db, User) ELSE backtests
  /\ UNCHANGED <<selectedBacktest, loading, toast, db, nextId, runs,
                 outsideBacktesting>>

(***************************************************************************)
(* The history tab                                                         *)
(***************************************************************************)
\* View Results, shown for the completed entries of the list
SelectBacktest(k) ==
  /\ k \in 1..Len(backtests)
  /\ backtests[k].status = "completed"
  /\ selectedBacktest' = backtests[k]
  /\ UNCHANGED <<backtests, loading, toast, db, nextId, netVars,
                 outsideBacktesting>>

Without(list, id) == SelectSeq(list, LAMBDA b : b.id # id)

\* the click on the trash button of entry k: deleteBacktest(id), through
\* the reply of its delete
DeleteBacktest(k) ==
  /\ k \in 1..Len(backtests)
  /\ LET id == backtests[k].id
     IN  \E ok \in BOOLEAN :
           IF ok
           THEN /\ db' = DeleteRow(db, id)
                /\ backtests' = Without(backtests, id)
                /\ selectedBacktest' =
                     IF selectedBacktest # NULL /\ selectedBacktest.id = id
                     THEN NULL ELSE selectedBacktest
                /\ toast' = ToastDeleted
           ELSE /\ toast' = ToastDeleteFailed
                /\ UNCHANGED <<db, backtests, selectedBacktest>>
  /\ UNCHANGED <<loading, nextId, netVars, outsideBacktesting>>

(***************************************************************************)
(* fetchBacktests and deleteBacktest, request by request                   *)
(***************************************************************************)
\* the service evaluates the query of a fetchBacktests call (ok) or fails
\* it; the answer is on its way to the page
FetchServe ==
  /\ fetchSent > 0
  /\ fetchSent' = fetchSent - 1
  /\ \E ok \in BOOLEAN :
       fetched' = Append(fetched,
                         [ok |-> ok,
                          data |-> IF ok THEN SelectBacktests(db, User)
                                   ELSE <<>>])
  /\ UNCHANGED <<pageVars, db, nextId, runs, holdingVars, alertVars, otherTab,
                 serviceVars, furtherVars, removing, flagging, deleting>>

\* the n-th of the answers on their way arrives and its fetchBacktests call
\* resumes: setBacktests(data || []), or console.error
FetchResume(n) ==
  /\ n \in 1..Len(fetched)
  /\ backtests' = IF fetched[n].ok THEN fetched[n].data ELSE backtests
  /\ fetched' = SubSeq(fetched, 1, n - 1) \o SubSeq(fetched, n + 1, Len(fetched))
  /\ UNCHANGED <<selectedBacktest, loading, toast, db, nextId, netVars,
                 holdingVars, alertVars, otherTab, serviceVars, furtherVars, removing,
                 flagging, deleting>>

\* the click on the trash button of entry k, up to the await of the delete:
\* the call holds the backtests and the selectedBacktest of the render it
\* was made in
DeleteClick(k) ==
  /\ k \in 1..Len(backtests)
  /\ backtests[k].id \notin DOMAIN deleting
  /\ deleting' =
       [i \in DOMAIN deleting \cup {backtests[k].id} |->
          IF i = backtests[k].id
          THEN [backtests |-> backtests, selectedBacktest |-> selectedBacktest,
                pc |-> "sent"]
          ELSE deleting[i]]
  /\ UNCHANGED <<backtestVars, holdingVars, alertVars, otherTab, serviceVars, furtherVars,
                 removing, flagging, fetched>>

\* the delete of the call is answered (ok: the service has deleted the row)
\* and deleteBacktest resumes over what the call holds
DeleteSettle(id, ok) ==
  /\ id \in DOMAIN deleting
  /\ deleting[id].pc = "sent"
  /\ LET call == deleting[id]
     IN  IF ok
         THEN /\ db' = DeleteRow(db, id)
              /\ backtests' = Without(call.backtests, id)
              /\ selectedBacktest' =
                   IF call.selectedBacktest # NULL
                      /\ call.selectedBacktest.id = id
                   THEN NULL ELSE selectedBacktest
              /\ toast' = ToastDeleted
              /\ deleting' = [deleting EXCEPT ![id].pc = "done"]
         ELSE /\ toast' = ToastDeleteFailed
              /\ deleting' = [deleting EXCEPT ![id].pc = "failed"]
              /\ UNCHANGED <<db, backtests, selectedBacktest>>
  /\ UNCHANGED <<loading, nextId, netVars, holdingVars, alertVars, otherTab,
                 serviceVars, furtherVars, removing, flagging, fetched>>

(***************************************************************************)
(* Two tabs                                                                *)
(***************************************************************************)
\* Each mounted instance of the component has its own useState cells and its
\* own timers; the table is the one thing the tabs of a user share.  The
\* handlers above are those of the tab in front; the user brings the other
\* tab to the front, and its handlers and timers are the ones that run next.
SwitchTab ==
  /\ otherTab' = [backtests |-> backtests,
                  selectedBacktest |-> selectedBacktest, loading |-> loading,
                  toast |-> toast, runs |-> runs, fetchSent |-> fetchSent]
  /\ backtests' = otherTab.backtests
  /\ selectedBacktest' = otherTab.selectedBacktest
  /\ loading' = otherTab.loading
  /\ toast' = otherTab.toast
  /\ runs' = otherTab.runs
  /\ fetchSent' = otherTab.fetchSent
  /\ UNCHANGED <<db, nextId, holdingVars, alertVars, serviceVars, callVars,
                 furtherVars>>

(***************************************************************************)
(* Portfolio and Watchlist: the metrics computed on every render           *)
(*                                                                         *)
(* shares, avg_cost and current_price are DECIMAL(10,2) columns without a  *)
(* CHECK; the modelled values are whole numbers, on which the sums,        *)
(* products and differences of JavaScript numbers are exact.  A quotient   *)
(* is the exact rational <<num, den>>, or NaN or an infinity when the      *)
(* divisor is 0.                                                           *)
(***************************************************************************)
\* (n / d) * 100
Percent(n, d) ==
  IF d = 0 THEN (IF n = 0 THEN NaN ELSE IF n > 0 THEN Infinity ELSE NegInfinity)
  ELSE IF d > 0 THEN Rat(n * 100, d)
  ELSE Rat(-(n * 100), -d)

\* Portfolio.calculateMetrics
CalculateMetrics_Unguarded(ps) ==
  LET value[k \in 0..Len(ps)] ==
        IF k = 0 THEN 0
        ELSE value[k - 1] + ps[k].shares * ps[k].stock.current_price
      cost[k \in 0..Len(ps)] ==
        IF k = 0 THEN 0 ELSE cost[k - 1] + ps[k].shares * ps[k].avg_cost
      totalValue == value[Len(ps)]
      totalCost == cost[Len(ps)]
      totalGainLoss == totalValue - totalCost
  IN  [totalValue |-> totalValue, totalCost |-> totalCost,
       totalGainLoss |-> totalGainLoss,
       totalGainLossPercent |-> Percent(totalGainLoss, totalCost)]

CalculateMetrics(ps) ==
  LET value[k \in 0..Len(ps)] ==
        IF k = 0 THEN 0
        ELSE value[k - 1] + ps[k].shares * ps[k].stock.current_price
      cost[k \in 0..Len(ps)] ==
        IF k = 0 THEN 0 ELSE cost[k - 1] + ps[k].shares * ps[k].avg_cost
      totalValue == value[Len(ps)]
      totalCost == cost[Len(ps)]
      totalGainLoss == totalValue - totalCost
  IN  [totalValue |-> totalValue, totalCost |-> totalCost,
       totalGainLoss |-> totalGainLoss,
       totalGainLossPercent |->
         IF totalCost > 0 THEN Percent(totalGainLoss, totalCost) ELSE <<0, 1>>]

\* the body of positions.map of the Portfolio page
PositionRow_OfValue(position) ==
  LET currentValue == position.shares * position.stock.current_price
      costBasis == position.shares * position.avg_cost
      gainLoss == currentValue - costBasis
  IN  [currentValue |-> currentValue, costBasis |-> costBasis,
       gainLoss |-> gainLoss,
       gainLossPercent |-> Percent(gainLoss, currentValue)]

PositionRow(position) ==
  LET currentValue == position.shares * position.stock.current_price
      costBasis == position.shares * position.avg_cost
      gainLoss == currentValue - costBasis
  IN  [currentValue |-> currentValue, costBasis |-> costBasis,
       gainLoss |-> gainLoss,
       gainLossPercent |-> Percent(gainLoss, costBasis)]

\* Watchlist.calculatePortfolioValue and calculatePortfolioCost
CalculatePortfolioValue(ps) ==
  LET total[k \in 0..Len(ps)] ==
        IF k = 0 THEN 0
        ELSE total[k - 1] + ps[k].shares * ps[k].stock.current_price
  IN  total[Len(ps)]

CalculatePortfolioCost(ps) ==
  LET total[k \in 0..Len(ps)] ==
        IF k = 0 THEN 0 ELSE total[k - 1] + ps[k].shares * ps[k].avg_cost
  IN  total[Len(ps)]

\* portfolioValue, portfolioCost, portfolioPnL and portfolioReturn of the
\* Watchlist page
PortfolioSummary(ps) ==
  LET portfolioValue == CalculatePortfolioValue(ps)
      portfolioCost == CalculatePortfolioCost(ps)
      portfolioPnL == portfolioValue - portfolioCost
  IN  [portfolioValue |-> portfolioValue, portfolioCost |-> portfolioCost,
       portfolioPnL |-> portfolioPnL,
       portfolioReturn |->
         IF portfolioCost > 0 THEN Percent(portfolioPnL, portfolioCost)
         ELSE <<0, 1>>]

\* portfolioStocks.filter(p => p.stock.current_price > p.avg_cost).length
Winners(ps) ==
  Cardinality({k \in 1..Len(ps) : ps[k].stock.current_price > ps[k].avg_cost})

\* portfolioStocks.filter(p => p.stock.current_price < p.avg_cost).length
Losers_OrEqual(ps) ==
  Cardinality({k \in 1..Len(ps) : ps[k].stock.current_price <= ps[k].avg_cost})

Losers(ps) ==
  Cardinality({k \in 1..Len(ps) : ps[k].stock.current_price < ps[k].avg_cost})

\* the body of portfolioStocks.map of the Watchlist page
HoldingRow(position) ==
  LET marketValue == position.shares * position.stock.current_price
      costBasis == position.shares * position.avg_cost
      pnl == marketValue - costBasis
  IN  [marketValue |-> marketValue, costBasis |-> costBasis, pnl |-> pnl,
       returnPercent |-> Percent(pnl, costBasis)]

(***************************************************************************)
(* Portfolio and Watchlist: the handlers                                   *)
(***************************************************************************)
ToastLoadFailed ==
  [title |-> "Error", description |-> "Failed to load portfolio data",
   variant |-> "destructive"]
ToastRemoved ==
  [title |-> "Success", description |-> "Position removed from portfolio",
   variant |-> "default"]
ToastRemoveFailed ==
  [title |-> "Error", description |-> "Failed to remove position",
   variant |-> "destructive"]

\* the ids of a table in the order the service returns its rows
RECURSIVE InIdOrder(_)
InIdOrder(ids) ==
  IF ids = {} THEN <<>>
  ELSE LET m == CHOOSE i \in ids : \A j \in ids : i <= j
       IN  <<m>> \o InIdOrder(ids \ {m})

\* from('portfolios').select('*, stock:stocks(*)').eq('user_id', user)
SelectPositions(tbl, stk, user) ==
  LET ids == InIdOrder({i \in DOMAIN tbl : tbl[i].user_id = user})
  IN  [k \in 1..Len(ids) |->
         [id |-> ids[k], user_id |-> user, stock_id |-> tbl[ids[k]].stock_id,
          shares |-> tbl[ids[k]].shares, avg_cost |-> tbl[ids[k]].avg_cost,
          stock |-> stk[tbl[ids[k]].stock_id]]]

\* from('trades').select('*, stock:stocks(ticker, company_name)')
\*   .eq('user_id', user).order('executed_at', {ascending: false}).limit(10)
SelectTrades(tt, user) ==
  LET mine == SelectSeq(tt, LAMBDA t : t.user_id = user)
  IN  SubSeq(mine, 1, IF Len(mine) < 10 THEN Len(mine) ELSE 10)

\* from('watchlists').select('stock:stocks(*)').eq('user_id', user), then
\* watchlistData.map(item => item.stock).filter(Boolean)
SelectWatchlist(tbl, stk, user) ==
  LET ids == InIdOrder({i \in DOMAIN tbl : tbl[i].user_id = user})
  IN  [k \in 1..Len(ids) |-> stk[tbl[ids[k]].stock_id]]

\* delete().eq('id', positionId) on public.portfolios by a session of user:
\* the policy of the table lets it reach the rows of that user only
DeletePosition(tbl, user, id) ==
  [i \in DOMAIN tbl \ {j \in {id} \cap DOMAIN tbl : tbl[j].user_id = user} |->
     tbl[i]]

\* fetchPortfolioData with setPositions called as soon as the positions
\* query has answered
LoadPortfolio_PositionsFirst(okP, okT) ==
  /\ pfLoading
  /\ positions' = IF okP THEN SelectPositions(portfolios, stocks, User)
                  ELSE positions
  /\ IF okP /\ okT
     THEN /\ trades' = SelectTrades(tradesTable, User)
          /\ UNCHANGED pfToast
     ELSE /\ pfToast' = ToastLoadFailed
          /\ UNCHANGED trades
  /\ pfLoading' = FALSE
  /\ UNCHANGED <<tableVars, watchlistVars, outsideHoldings>>

\* Portfolio.fetchPortfolioData through the replies of its two queries
\* (okP, okT: the service answers the positions query, the trades query;
\* the trades query is sent only when the positions query was answered):
\* both lists are set after both replies, an error of either query goes to
\* the catch, and the finally ends loading
LoadPortfolio(okP, okT) ==
  /\ pfLoading
  /\ IF okP /\ okT
     THEN /\ positions' = SelectPositions(portfolios, stocks, User)
          /\ trades' = SelectTrades(tradesTable, User)
          /\ UNCHANGED pfToast
     ELSE /\ pfToast' = ToastLoadFailed
          /\ UNCHANGED <<positions, trades>>
  /\ pfLoading' = FALSE
  /\ UNCHANGED <<tableVars, watchlistVars, outsideHoldings>>

\* Portfolio.fetchPortfolioData, called once by the effect of the mount
FetchPortfolioData == \E okP, okT \in BOOLEAN : LoadPortfolio(okP, okT)

\* positions.filter(p => p.id !== positionId)
WithoutPosition(list, id) == SelectSeq(list, LAMBDA q : q.id # id)

\* the click on the trash button of position k: Portfolio.removePosition,
\* through the reply of its delete
RemovePosition(k) ==
  /\ ~pfLoading
  /\ k \in 1..Len(positions)
  /\ LET positionId == positions[k].id
     IN  \E ok \in BOOLEAN :
           IF ok
           THEN /\ portfolios' = DeletePosition(portfolios, User, positionId)
                /\ positions' = WithoutPosition(positions, positionId)
                /\ pfToast' = ToastRemoved
           ELSE /\ pfToast' = ToastRemoveFailed
                /\ UNCHANGED <<portfolios, positions>>
  /\ UNCHANGED <<stocks, nextPositionId, tradesTable, watchlists, trades,
                 pfLoading, watchlistVars, outsideHoldings>>

(***************************************************************************)
(* removePosition, call by call                                            *)
(***************************************************************************)
\* the click on the trash button of position k, up to the await of the
\* delete: the call holds the positions of the render it was made in
RemoveClick(k) ==
  /\ ~pfLoading
  /\ k \in 1..Len(positions)
  /\ positions[k].id \notin DOMAIN removing
  /\ removing' =
       [i \in DOMAIN removing \cup {positions[k].id} |->
          IF i = positions[k].id THEN [positions |-> positions, pc |-> "sent"]
          ELSE removing[i]]
  /\ UNCHANGED <<tableVars, portfolioVars, watchlistVars, backtestVars,
                 alertVars, otherTab, serviceVars, furtherVars, flagging, fetched, deleting>>

\* the delete of the call is answered (ok: the service has deleted the row)
\* and removePosition resumes: setPositions(positions.filter(...)) over the
\* positions the call holds, and the toast
RemoveSettle(positionId, ok) ==
  /\ positionId \in DOMAIN removing
  /\ removing[positionId].pc = "sent"
  /\ IF ok
     THEN /\ portfolios' = DeletePosition(portfolios, User, positionId)
          /\ positions' =
               WithoutPosition(removing[positionId].positions, positionId)
          /\ pfToast' = ToastRemoved
          /\ removing' = [removing EXCEPT ![positionId].pc = "done"]
     ELSE /\ pfToast' = ToastRemoveFailed
          /\ removing' = [removing EXCEPT ![positionId].pc = "failed"]
          /\ UNCHANGED <<portfolios, positions>>
  /\ UNCHANGED <<stocks, nextPositionId, tradesTable, watchlists, trades,
                 pfLoading, watchlistVars, backtestVars, alertVars, otherTab,
                 serviceVars, furtherVars, flagging, fetched, deleting>>

(***************************************************************************)
(* The writers of public.portfolios                                        *)
(*                                                                         *)
(* No page of the client inserts a position; the rows are written through  *)
(* the service by its other clients, under the constraints of the table.   *)
(***************************************************************************)
\* UNIQUE(user_id, stock_id): a row of the table holds the pair already
Conflict_Never(tbl, user, stock) == FALSE

Conflict(tbl, user, stock) ==
  \E i \in DOMAIN tbl : tbl[i].user_id = user /\ tbl[i].stock_id = stock

\* the table with the row id added or replaced
WithPosition(tbl, id, user, stock, shares, avg_cost) ==
  [i \in DOMAIN tbl \cup {id} |->
     IF i = id
     THEN [id |-> id, user_id |-> user, stock_id |-> stock, shares |-> shares,
           avg_cost |-> avg_cost]
     ELSE tbl[i]]

\* INSERT INTO public.portfolios by a session of user: rejected when it
\* violates the unique constraint
InsertPosition(user, stock, shares, avg_cost) ==
  /\ nextPositionId <= MaxPositionRows
  /\ stock \in DOMAIN stocks
  /\ IF Conflict(portfolios, user, stock)
     THEN UNCHANGED <<portfolios, nextPositionId>>
     ELSE /\ portfolios' = WithPosition(portfolios, nextPositionId, user, stock,
                                        shares, avg_cost)
          /\ nextPositionId' = nextPositionId + 1
  /\ UNCHANGED <<stocks, tradesTable, watchlists, portfolioVars, watchlistVars,
                 outsideHoldings>>

\* upsert position: insert, or update on conflict, keyed by (user, stock)
UpsertPosition(user, stock, shares, avg_cost) ==
  /\ stock \in DOMAIN stocks
  /\ IF Conflict(portfolios, user, stock)
     THEN LET id == CHOOSE i \in DOMAIN portfolios :
                      /\ portfolios[i].user_id = user
                      /\ portfolios[i].stock_id = stock
          IN  /\ portfolios' = WithPosition(portfolios, id, user, stock, shares,
                                            avg_cost)
              /\ UNCHANGED nextPositionId
     ELSE /\ nextPositionId <= MaxPositionRows
          /\ portfolios' = WithPosition(portfolios, nextPositionId, user, stock,
                                        shares, avg_cost)
          /\ nextPositionId' = nextPositionId + 1
  /\ UNCHANGED <<stocks, tradesTable, watchlists, portfolioVars, watchlistVars,
                 outsideHoldings>>

\* the delete of removePosition sent by a session of another user, for any id
DeleteElsewhere(user, id) ==
  /\ id \in DOMAIN portfolios
  /\ portfolios' = DeletePosition(portfolios, user, id)
  /\ UNCHANGED <<stocks, nextPositionId, tradesTable, watchlists,
                 portfolioVars, watchlistVars, outsideHoldings>>

\* Watchlist.fetchData, called once by the effect of the mount, through the
\* replies of its two queries
FetchData ==
  /\ wlLoading
  /\ \E okW, okP \in BOOLEAN :
       IF okW /\ okP
       THEN /\ watchlistStocks' = SelectWatchlist(watchlists, stocks, User)
            /\ portfolioStocks' = SelectPositions(portfolios, stocks, User)
       ELSE UNCHANGED <<watchlistStocks, portfolioStocks>>
  /\ wlLoading' = FALSE
  /\ UNCHANGED <<tableVars, portfolioVars, outsideHoldings>>

(***************************************************************************)
(* Alerts: the widget of the dashboard and the Alerts page                 *)
(***************************************************************************)
\* toast({title, description, variant}); description "" when there is none
ToastOf(title, description, variant) ==
  [title |-> title, description |-> description, variant |-> variant]

\* the ids of a table, latest created first
RECURSIVE LatestFirst(_)
LatestFirst(ids) ==
  IF ids = {} THEN <<>>
  ELSE LET m == CHOOSE i \in ids : \A j \in ids : i >= j
       IN  <<m>> \o LatestFirst(ids \ {m})

\* from('alerts').select('*, stocks(...)').order('created_at', {ascending:
\* false}) by a session of user: the widget asks for .eq('user_id', user.id),
\* the page relies on the SELECT policy of the table, auth.uid() = user_id
SelectAlerts(tbl, stk, user) ==
  LET ids == LatestFirst({i \in DOMAIN tbl : tbl[i].user_id = user})
  IN  [k \in 1..Len(ids) |->
         [id |-> ids[k], user_id |-> tbl[ids[k]].user_id,
          stock_id |-> tbl[ids[k]].stock_id,
          trigger_type |-> tbl[ids[k]].trigger_type, tier |-> tbl[ids[k]].tier,
          price |-> tbl[ids[k]].price, rationale |-> tbl[ids[k]].rationale,
          is_read |-> tbl[ids[k]].is_read,
          is_dismissed |-> tbl[ids[k]].is_dismissed,
          created_at |-> tbl[ids[k]].created_at,
          stock |-> stk[tbl[ids[k]].stock_id]]]

\* update({ [flag]: true }).eq('id', alertId) by a session of user: the
\* UPDATE policy of the table lets it reach the rows of that user only
SetAlertFlag_EveryRow(tbl, user, alertId, flag) ==
  [i \in DOMAIN tbl |->
     IF tbl[i].user_id = user THEN [tbl[i] EXCEPT ![flag] = TRUE] ELSE tbl[i]]

SetAlertFlag(tbl, user, alertId, flag) ==
  [i \in DOMAIN tbl |->
     IF i = alertId /\ tbl[i].user_id = user
     THEN [tbl[i] EXCEPT ![flag] = TRUE]
     ELSE tbl[i]]

\* alerts.map(alert => alert.id === alertId ? {...alert, [flag]: true} : alert)
MapFlag(list, alertId, flag) ==
  [k \in 1..Len(list) |->
     IF list[k].id = alertId THEN [list[k] EXCEPT ![flag] = TRUE] ELSE list[k]]

\* AlertsManager.fetchAlerts, called once by the effect of the mount,
\* through the reply of its query
FetchAlerts ==
  /\ widgetLoading
  /\ \E ok \in BOOLEAN :
       IF ok
       THEN /\ widgetAlerts' = SelectAlerts(alertsTable, stocks, User)
            /\ UNCHANGED widgetToast
       ELSE /\ widgetToast' = ToastOf("Error", "Failed to load alerts",
                                      "destructive")
            /\ UNCHANGED widgetAlerts
  /\ widgetLoading' = FALSE
  /\ UNCHANGED <<alertsTable, alertsPageVars, outsideAlerts>>

\* alerts.filter(alert => !alert.is_dismissed).slice(0, 10)
RecentAlerts(list) ==
  LET shown == SelectSeq(list, LAMBDA a : ~a.is_dismissed)
  IN  SubSeq(shown, 1, IF Len(shown) < 10 THEN Len(shown) ELSE 10)

\* the click on the check button of the k-th recent alert, shown while it is
\* unread: AlertsManager.markAsRead, through the reply of its update
MarkAsRead(k) ==
  /\ ~widgetLoading
  /\ k \in 1..Len(RecentAlerts(widgetAlerts))
  /\ ~RecentAlerts(widgetAlerts)[k].is_read
  /\ LET alertId == RecentAlerts(widgetAlerts)[k].id
     IN  \E ok \in BOOLEAN :
           IF ok
           THEN /\ alertsTable' = SetAlertFlag(alertsTable, User, alertId,
                                               "is_read")
                /\ widgetAlerts' = MapFlag(widgetAlerts, alertId, "is_read")
           ELSE UNCHANGED <<alertsTable, widgetAlerts>>
  /\ UNCHANGED <<widgetLoading, widgetToast, alertsPageVars, outsideAlerts>>

\* the click on the X button of the k-th recent alert:
\* AlertsManager.dismissAlert, through the reply of its update
DismissAlert(k) ==
  /\ ~widgetLoading
  /\ k \in 1..Len(RecentAlerts(widgetAlerts))
  /\ LET alertId == RecentAlerts(widgetAlerts)[k].id
     IN  \E ok \in BOOLEAN :
           IF ok
           THEN /\ alertsTable' = SetAlertFlag(alertsTable, User, alertId,
                                               "is_dismissed")
                /\ widgetAlerts' =
                     SelectSeq(widgetAlerts, LAMBDA a : a.id # alertId)
                /\ widgetToast' =
                     ToastOf("Alert dismissed",
                             "Alert has been removed from your list", "default")
           ELSE /\ widgetToast' = ToastOf("Error", "Failed to dismiss alert",
                                          "destructive")
                /\ UNCHANGED <<alertsTable, widgetAlerts>>
  /\ UNCHANGED <<widgetLoading, alertsPageVars, outsideAlerts>>

\* the click on the check button (flag is_read, shown while the alert is
\* unread) or on the X button (flag is_dismissed) of the k-th recent alert,
\* up to the await of the update: the call of markAsRead or dismissAlert
\* holds the alerts of the render it was made in
AlertClick(k, flag) ==
  /\ ~widgetLoading
  /\ k \in 1..Len(RecentAlerts(widgetAlerts))
  /\ flag = "is_read" => ~RecentAlerts(widgetAlerts)[k].is_read
  /\ <<RecentAlerts(widgetAlerts)[k].id, flag>> \notin DOMAIN flagging
  /\ LET alertId == RecentAlerts(widgetAlerts)[k].id
     IN  flagging' =
           [c \in DOMAIN flagging \cup {<<alertId, flag>>} |->
              IF c = <<alertId, flag>>
              THEN [alerts |-> widgetAlerts, pc |-> "sent"]
              ELSE flagging[c]]
  /\ UNCHANGED <<alertVars, backtestVars, holdingVars, otherTab, serviceVars, furtherVars,
                 removing, fetched, deleting>>

\* the update of the call is answered (ok: the service has set the flag)
\* and markAsRead or dismissAlert resumes: setAlerts(alerts.map(...)) or
\* setAlerts(alerts.filter(...)) over the alerts the call holds
AlertSettle(alertId, flag, ok) ==
  /\ <<alertId, flag>> \in DOMAIN flagging
  /\ flagging[<<alertId, flag>>].pc = "sent"
  /\ LET call == flagging[<<alertId, flag>>]
     IN  IF ok
         THEN /\ alertsTable' = SetAlertFlag(alertsTable, User, alertId, flag)
              /\ flagging' = [flagging EXCEPT ![<<alertId, flag>>].pc = "done"]
              /\ IF flag = "is_read"
                 THEN /\ widgetAlerts' = MapFlag(call.alerts, alertId, "is_read")
                      /\ UNCHANGED widgetToast
                 ELSE /\ widgetAlerts' =
                           SelectSeq(call.alerts, LAMBDA a : a.id # alertId)
                      /\ widgetToast' =
                           ToastOf("Alert dismissed",
                                   "Alert has been removed from your list",
                                   "default")
         ELSE /\ flagging' =
                   [flagging EXCEPT ![<<alertId, flag>>].pc = "failed"]
              /\ widgetToast' =
                   IF flag = "is_read" THEN widgetToast
                   ELSE ToastOf("Error", "Failed to dismiss alert",
                                "destructive")
              /\ UNCHANGED <<alertsTable, widgetAlerts>>
  /\ UNCHANGED <<widgetLoading, alertsPageVars, backtestVars, holdingVars,
                 otherTab, serviceVars, furtherVars, removing, fetched, deleting>>

\* Alerts.fetchAlerts, called once by the effect of the mount, through the
\* reply of its query
AlertsFetchAlerts ==
  /\ alertsLoading
  /\ \E ok \in BOOLEAN :
       alerts' = IF ok THEN SelectAlerts(alertsTable, stocks, User) ELSE alerts
  /\ alertsLoading' = FALSE
  /\ UNCHANGED <<alertsTable, alertsToast, widgetVars, outsideAlerts>>

\* the click on the check button of the k-th alert of the page, shown while
\* it is neither read nor dismissed: Alerts.markAsRead
AlertsMarkAsRead(k) ==
  /\ ~alertsLoading
  /\ k \in 1..Len(alerts)
  /\ ~alerts[k].is_read /\ ~alerts[k].is_dismissed
  /\ \E ok \in BOOLEAN :
       IF ok
       THEN /\ alertsTable' = SetAlertFlag(alertsTable, User, alerts[k].id,
                                           "is_read")
            /\ alerts' = MapFlag(alerts, alerts[k].id, "is_read")
            /\ alertsToast' = ToastOf("Alert marked as read", "", "default")
       ELSE /\ alertsToast' = ToastOf("Error", "Failed to mark alert as read",
                                      "destructive")
            /\ UNCHANGED <<alertsTable, alerts>>
  /\ UNCHANGED <<alertsLoading, widgetVars, outsideAlerts>>

\* the click on the X button of the k-th alert of the page, shown while it
\* is not dismissed: Alerts.dismissAlert
AlertsDismissAlert(k) ==
  /\ ~alertsLoading
  /\ k \in 1..Len(alerts)
  /\ ~alerts[k].is_dismissed
  /\ \E ok \in BOOLEAN :
       IF ok
       THEN /\ alertsTable' = SetAlertFlag(alertsTable, User, alerts[k].id,
                                           "is_dismissed")
            /\ alerts' = MapFlag(alerts, alerts[k].id, "is_dismissed")
            /\ alertsToast' = ToastOf("Alert dismissed", "", "default")
       ELSE /\ alertsToast' = ToastOf("Error", "Failed to dismiss alert",
                                      "destructive")
            /\ UNCHANGED <<alertsTable, alerts>>
  /\ UNCHANGED <<alertsLoading, widgetVars, outsideAlerts>>

(***************************************************************************)
(* Row level security                                                      *)
(***************************************************************************)
TableNames == {"alerts", "portfolios", "trades", "backtests", "watchlists"}

Commands == {"SELECT", "UPDATE", "DELETE"}

\* the table of that name
TableOf(t) ==
  CASE t = "alerts" -> alertsTable
    [] t = "portfolios" -> portfolios
    [] t = "trades" -> tradesTable
    [] t = "backtests" -> db
    [] t = "watchlists" -> watchlists

\* the policies without the owner check on DELETE
Policy_DeleteAny(t, cmd, row, uid) ==
  /\ uid # NoUser
  /\ cmd = "DELETE" \/ row.user_id = uid
  /\ t = "alerts" => cmd \in {"SELECT", "UPDATE"}

\* the policies of the five tables for a command of a session whose
\* auth.uid() is uid (NoUser: not signed in): USING (auth.uid() = user_id),
\* FOR ALL on four tables, FOR SELECT and FOR UPDATE on public.alerts, which
\* has no policy for another command
Policy(t, cmd, row, uid) ==
  /\ uid # NoUser
  /\ row.user_id = uid
  /\ t = "alerts" => cmd \in {"SELECT", "UPDATE"}

\* the column an update request sets, and the value it gives it
UpdatedColumn(t) ==
  CASE t = "alerts" -> "is_read"
    [] t = "portfolios" -> "shares"
    [] t = "trades" -> "shares"
    [] t = "backtests" -> "status"
    [] t = "watchlists" -> "stock_id"

UpdatedValue(t) ==
  CASE t = "alerts" -> TRUE
    [] t = "portfolios" -> 0
    [] t = "trades" -> 0
    [] t = "backtests" -> "failed"
    [] t = "watchlists" -> 2

\* A request of a session of uid to table t: select('*'), or
\* update({...}).eq('id', id), or delete().eq('id', id), with no filter on
\* the user.  The service applies the command to the rows the policy lets
\* the session reach and answers with those rows.
Request(uid, t, cmd, id) ==
  LET tbl == TableOf(t)
      hit == {i \in DOMAIN tbl :
                (cmd = "SELECT" \/ i = id) /\ Policy(t, cmd, tbl[i], uid)}
      new == CASE cmd = "SELECT" -> tbl
               [] cmd = "UPDATE" ->
                    [i \in DOMAIN tbl |->
                       IF i \in hit
                       THEN [tbl[i] EXCEPT ![UpdatedColumn(t)] = UpdatedValue(t)]
                       ELSE tbl[i]]
               [] cmd = "DELETE" -> [i \in DOMAIN tbl \ hit |-> tbl[i]]
  IN  /\ reply' = [user |-> uid, table |-> t, command |-> cmd, id |-> id,
                   rows |-> {tbl[i] : i \in hit}]
      /\ alertsTable' = IF t = "alerts" THEN new ELSE alertsTable
      /\ portfolios' = IF t = "portfolios" THEN new ELSE portfolios
      /\ tradesTable' = IF t = "trades" THEN new ELSE tradesTable
      /\ db' = IF t = "backtests" THEN new ELSE db
      /\ watchlists' = IF t = "watchlists" THEN new ELSE watchlists
      /\ UNCHANGED <<pageVars, nextId, netVars, otherTab, stocks,
                     nextPositionId, portfolioVars, watchlistVars, widgetVars,
                     alertsPageVars, callVars,
                     furtherVars>>

(***************************************************************************)
(* The Dashboard page and DashboardCharts                                  *)
(***************************************************************************)
\* the stocks the exchange lists, and the scores and volumes a row can have
MaxListed == 3
ListedStocks == 1..MaxListed
Scores == {1, 2, 3}
Volumes == {10, 20}

\* ids as sequence q orders them are in an order of descending score
ScoreDescending(q, tbl) ==
  \A i, j \in DOMAIN q : i < j => tbl[q[i]].score >= tbl[q[j]].score

\* .eq('is_active', true).order('score', { ascending: false }): the active
\* rows in an order of descending score; the service is free in the order
\* of rows of equal score
OrderByScore(tbl) ==
  LET active == {i \in DOMAIN tbl : tbl[i].is_active}
      n == Cardinality(active)
  IN  {[k \in 1..n |-> tbl[q[k]]] :
         q \in {q \in [1..n -> active] :
                  /\ \A i, j \in 1..n : i # j => q[i] # q[j]
                  /\ ScoreDescending(q, tbl)}}

\* fetchStocks, called once by the effect of the mount: the answer becomes
\* the state, or an error is logged and the state stays; loading ends
FetchStocks(ok) ==
  /\ dashLoading
  /\ IF ok
     THEN \E data \in OrderByScore(stocks) : dashStocks' = data
     ELSE UNCHANGED dashStocks
  /\ dashLoading' = FALSE
  /\ UNCHANGED <<marketData, volumeData, topStock, chartVars, keyVars,
                 backtestVars, holdingVars, alertVars, otherTab, serviceVars,
                 callVars>>

\* Array.prototype.sort((a, b) => b.volume - a.volume): the elements in
\* descending volume, those of equal volume in the order they had (the sort
\* is stable)
RECURSIVE SortByVolume(_)
SortByVolume(s) ==
  IF s = <<>> THEN <<>>
  ELSE LET x == Head(s)
           rest == SortByVolume(Tail(s))
           before == Cardinality({i \in DOMAIN rest : rest[i].volume > x.volume})
       IN  SubSeq(rest, 1, before) \o <<x>> \o SubSeq(rest, before + 1, Len(rest))

\* slice(0, n)
Slice(s, n) == SubSeq(s, 1, IF Len(s) < n THEN Len(s) ELSE n)

\* One render of DashboardCharts with the array of the Dashboard as its prop
\* (the Dashboard renders it once loading has ended).  marketData is taken
\* from the array as it is, then stocks.sort(...) sorts that very array in
\* place and volumeData is taken from it, and the JSX reads stocks[0] after
\* both.
RenderDashboardCharts ==
  LET sorted == SortByVolume(dashStocks)
  IN  /\ ~dashLoading
      /\ marketData' = [i \in DOMAIN Slice(dashStocks, 5) |-> dashStocks[i].id]
      /\ dashStocks' = sorted
      /\ volumeData' = [i \in DOMAIN Slice(sorted, 8) |-> sorted[i].id]
      /\ topStock' = IF Len(sorted) > 0 THEN <<sorted[1].id>> ELSE <<>>
      /\ UNCHANGED <<dashLoading, chartVars, keyVars, backtestVars,
                     holdingVars, alertVars, otherTab, serviceVars, callVars>>

(***************************************************************************)
(* PriceChart                                                              *)
(***************************************************************************)
\* the calls of fetchPriceData that can await their answer at a time
MaxPriceCalls == 3

TimeRanges == {"1D", "1W", "1M", "3M", "1Y"}
ChartedStocks == {1, 2}

\* switch (timeRange): how many days before now startDate lies (a month
\* taken as 30 days, a year as 365)
DaysBack(range) ==
  CASE range = "1D" -> 1
    [] range = "1W" -> 7
    [] range = "1M" -> 30
    [] range = "3M" -> 90
    [] range = "1Y" -> 365

\* public.stock_prices in order of timestamp: for each stock one row in
\* each of the five ranges; age is the number of days from the timestamp of
\* the row to now
PriceAges == <<200, 60, 20, 3, 0>>
PriceRows ==
  [k \in 1..(2 * Len(PriceAges)) |->
     LET s == ((k - 1) % 2) + 1
         a == PriceAges[(k - 1) \div 2 + 1]
     IN  [stock_id |-> s, age |-> a, price |-> 10 * s + (k - 1) \div 2]]

\* the rows of s for stock that are at most days old, in the order of s
RECURSIVE SelectRows(_, _, _)
SelectRows(s, stock, days) ==
  IF s = <<>> THEN <<>>
  ELSE LET rest == SelectRows(Tail(s), stock, days)
       IN  IF Head(s).stock_id = stock /\ Head(s).age <= days
           THEN <<Head(s)>> \o rest
           ELSE rest

\* what a call for stock and range sets when its query succeeds:
\* .eq('stock_id', stockId).gte('timestamp', startDate).order('timestamp'),
\* each row with the date of its timestamp added
PriceAnswer(stock, range) ==
  LET data == SelectRows(stockPrices, stock, DaysBack(range))
  IN  [mock |-> FALSE,
       rows |-> [i \in DOMAIN data |->
                   [stock_id |-> data[i].stock_id, age |-> data[i].age,
                    price |-> data[i].price, date |-> data[i].age]]]

\* generateMockData of a call for range: points + 1 points, an hour apart
\* for '1D' and a day apart otherwise; their prices and volumes are drawn
\* with Math.random() and are left out
MockData(range) ==
  LET points == IF range = "1D" THEN 24 ELSE IF range = "1W" THEN 7 ELSE 30
  IN  [mock |-> TRUE,
       rows |-> [i \in 1..(points + 1) |->
                   [age |-> points + 1 - i,
                    unit |-> IF range = "1D" THEN "hour" ELSE "day"]]]

\* fetchPriceData up to its await, as the effect calls it after a render in
\* which stockId is stock and timeRange is range: the call closes over both
FetchPriceData(stock, range) ==
  /\ Len(priceCalls) < MaxPriceCalls
  /\ chartLoading' = TRUE
  /\ priceCalls' = Append(priceCalls, [stockId |-> stock, timeRange |-> range])

\* onClick={() => setTimeRange(range)} of a button of the controls, which
\* are rendered when the chart is not compact and not loading; the effect
\* runs when timeRange has changed
SetTimeRange(range) ==
  /\ stockId # 0
  /\ ~compact
  /\ ~chartLoading
  /\ range # timeRange
  /\ timeRange' = range
  /\ FetchPriceData(stockId, range)
  /\ UNCHANGED <<stockPrices, stockId, priceData, compact, dashboardVars,
                 keyVars, backtestVars, holdingVars, alertVars, otherTab,
                 serviceVars, callVars>>

\* the parent renders the chart with the id of another stock; the effect
\* runs because stockId has changed
ShowStock(stock) ==
  /\ stockId # 0
  /\ stock # stockId
  /\ stockId' = stock
  /\ FetchPriceData(stock, timeRange)
  /\ UNCHANGED <<stockPrices, timeRange, priceData, compact, dashboardVars,
                 keyVars, backtestVars, holdingVars, alertVars, otherTab,
                 serviceVars, callVars>>

\* fetchPriceData after its await, for the k-th call awaiting its answer:
\* the answer becomes the data, or on an error the mock data of the range
\* of the call; loading ends
PriceSettle(k, ok) ==
  /\ k \in DOMAIN priceCalls
  /\ priceData' = IF ok
                  THEN PriceAnswer(priceCalls[k].stockId, priceCalls[k].timeRange)
                  ELSE MockData(priceCalls[k].timeRange)
  /\ chartLoading' = FALSE
  /\ priceCalls' = [i \in 1..(Len(priceCalls) - 1) |->
                      IF i < k THEN priceCalls[i] ELSE priceCalls[i + 1]]
  /\ UNCHANGED <<stockPrices, stockId, timeRange, compact, dashboardVars,
                 keyVars, backtestVars, holdingVars, alertVars, otherTab,
                 serviceVars, callVars>>

(***************************************************************************)
(* public.user_api_keys and its functions                                  *)
(***************************************************************************)
\* the calls a behaviour makes at most, the first of them being the store
\* of another user that precedes the others
MaxKeyCalls == 4

KeyNames == {"Trading API Key", "Data API Key"}
ApiKeys == {"k1", "k2"}

\* the text result NULL of get_user_api_key
NoKey == "NULL"

\* now(): calls are numbered in the order they are made
KeyTime == Len(keyCalls) + 1

\* the rows of user uid with key_name name
KeyRowsOf(uid, name) ==
  {i \in DOMAIN userApiKeys :
     userApiKeys[i].user_id = uid /\ userApiKeys[i].key_name = name}

\* the call is recorded with what it returned
Returned(fn, uid, name, key, result) ==
  keyCalls' = Append(keyCalls, [fn |-> fn, user |-> uid, name |-> name,
                                key |-> key, result |-> result])

\* store_user_api_key(api_key_param, key_name_param) called by a session of
\* uid: INSERT ... ON CONFLICT (user_id, key_name) DO UPDATE
StoreUserApiKey(uid, key, name) ==
  /\ Len(keyCalls) < MaxKeyCalls
  /\ IF uid = NoUser
     THEN /\ UNCHANGED userApiKeys
          /\ Returned("store", uid, name, key, FALSE)
     ELSE /\ userApiKeys' =
               IF KeyRowsOf(uid, name) = {}
               THEN Append(userApiKeys,
                           [id |-> Len(userApiKeys) + 1, user_id |-> uid,
                            encrypted_api_key |-> key, key_name |-> name,
                            created_at |-> KeyTime, last_used_at |-> 0,
                            is_active |-> TRUE])
               ELSE [i \in DOMAIN userApiKeys |->
                       IF i \in KeyRowsOf(uid, name)
                       THEN [userApiKeys[i] EXCEPT
                               !.encrypted_api_key = key,
                               !.created_at = KeyTime,
                               !.is_active = TRUE]
                       ELSE userApiKeys[i]]
          /\ Returned("store", uid, name, key, TRUE)
  /\ UNCHANGED <<dashboardVars, chartVars, backtestVars, holdingVars,
                 alertVars, otherTab, serviceVars, callVars>>

\* get_user_api_key with the rows of every user of the name in its reach
GetUserApiKey_AnyOwner(uid, name) ==
  LET found == {i \in DOMAIN userApiKeys :
                  userApiKeys[i].key_name = name /\ userApiKeys[i].is_active}
      first == CHOOSE i \in found : \A j \in found : i <= j
  IN  /\ Len(keyCalls) < MaxKeyCalls
      /\ IF uid = NoUser \/ found = {}
         THEN /\ UNCHANGED userApiKeys
              /\ Returned("get", uid, name, NoKey, NoKey)
         ELSE /\ userApiKeys' =
                   [i \in DOMAIN userApiKeys |->
                      IF i \in KeyRowsOf(uid, name)
                      THEN [userApiKeys[i] EXCEPT !.last_used_at = KeyTime]
                      ELSE userApiKeys[i]]
              /\ Returned("get", uid, name, NoKey,
                          userApiKeys[first].encrypted_api_key)
      /\ UNCHANGED <<dashboardVars, chartVars, backtestVars, holdingVars,
                     alertVars, otherTab, serviceVars, callVars>>

\* get_user_api_key(key_name_param) called by a session of uid: SELECT ...
\* INTO takes the first active row of the user and the name, and when there
\* is one the rows of the user and the name are stamped with now()
GetUserApiKey(uid, name) ==
  LET found == {i \in KeyRowsOf(uid, name) : userApiKeys[i].is_active}
      first == CHOOSE i \in found : \A j \in found : i <= j
  IN  /\ Len(keyCalls) < MaxKeyCalls
      /\ IF uid = NoUser \/ found = {}
         THEN /\ UNCHANGED userApiKeys
              /\ Returned("get", uid, name, NoKey, NoKey)
         ELSE /\ userApiKeys' =
                   [i \in DOMAIN userApiKeys |->
                      IF i \in KeyRowsOf(uid, name)
                      THEN [userApiKeys[i] EXCEPT !.last_used_at = KeyTime]
                      ELSE userApiKeys[i]]
              /\ Returned("get", uid, name, NoKey,
                          userApiKeys[first].encrypted_api_key)
      /\ UNCHANGED <<dashboardVars, chartVars, backtestVars, holdingVars,
                     alertVars, otherTab, serviceVars, callVars>>

\* from('user_api_keys').update({ is_active: false }).eq('key_name', name)
\* sent by a session of uid: the policy of the table (FOR ALL, auth.uid() =
\* user_id) lets it reach the rows of that user only
DeactivateKey(uid, name) ==
  /\ Len(keyCalls) < MaxKeyCalls
  /\ userApiKeys' =
       [i \in DOMAIN userApiKeys |->
          IF uid # NoUser /\ i \in KeyRowsOf(uid, name)
          THEN [userApiKeys[i] EXCEPT !.is_active = FALSE]
          ELSE userApiKeys[i]]
  /\ Returned("deactivate", uid, name, NoKey,
              uid # NoUser /\ KeyRowsOf(uid, name) # {})
  /\ UNCHANGED <<dashboardVars, chartVars, backtestVars, holdingVars,
                 alertVars, otherTab, serviceVars, callVars>>

(***************************************************************************)
(* Specification                                                           *)
(***************************************************************************)
MaxPoints == MaxDays \div 7 + 1

Next ==
  \/ \E p \in ParamChoices : RunBacktest(p)
  \/ \E id \in 1..MaxBacktests, draws \in DrawSeqs(MaxPoints),
        stat \in StatDraws, ok \in BOOLEAN : TimerFire(id, draws, stat, ok)
  \/ \E id \in 1..MaxBacktests : CallbackResume(id)
  \/ FetchBacktests
  \/ \E k \in 1..MaxBacktests : SelectBacktest(k)
  \/ \E k \in 1..MaxBacktests : DeleteBacktest(k)

Spec == Init /\ [][Next]_vars

\* The same backtest run again and again: the first run takes any of the
\* compared parameter sets, every later run the parameters of the rows
\* there are; each run makes its own random draws.
SimNext ==
  \/ \E p \in SimParamChoices :
       /\ \A i \in DOMAIN db : db[i].parameters = p
       /\ RunBacktest(p)
  \/ \E id \in 1..MaxBacktests, draws \in DrawSeqs(MaxPoints),
        stat \in SimStatDraws, ok \in BOOLEAN : TimerFire(id, draws, stat, ok)
  \/ \E id \in 1..MaxBacktests : CallbackResume(id)

SpecSim == Init /\ [][SimNext]_vars

\* Runs of one date range and capital under any strategy, rebalance
\* frequency and risk management settings.
ConfigNext ==
  \/ \E p \in ConfigParamChoices : RunBacktest(p)
  \/ \E id \in 1..MaxBacktests, draws \in DrawSeqs(MaxPoints),
        stat \in StatDraws, ok \in BOOLEAN : TimerFire(id, draws, stat, ok)
  \/ \E id \in 1..MaxBacktests : CallbackResume(id)

SpecConfig == Init /\ [][ConfigNext]_vars

\* The page open in two tabs of one user, who runs backtests of two
\* capitals in them.
TabParamChoices == {FormParams("bt", 7, c, Stocks) : c \in {500, 100000}}

TabsNext ==
  \/ \E p \in TabParamChoices : RunBacktest(p)
  \/ \E id \in 1..MaxBacktests, draws \in DrawSeqs(MaxPoints),
        stat \in StatDraws, ok \in BOOLEAN : TimerFire(id, draws, stat, ok)
  \/ \E id \in 1..MaxBacktests : CallbackResume(id)
  \/ SwitchTab

SpecTabs == Init /\ [][TabsNext]_vars

\* what a stock and the signed-in user's position in it can be: the shares
\* and average cost of the position and the current price of the stock
HoldingCases ==
  {[shares |-> 10, avg_cost |-> 5, current_price |-> 6],
   [shares |-> 5, avg_cost |-> 10, current_price |-> 8],
   [shares |-> 5, avg_cost |-> 8, current_price |-> 8],
   [shares |-> 0, avg_cost |-> 5, current_price |-> 6],
   [shares |-> 5, avg_cost |-> 0, current_price |-> 6],
   [shares |-> 5, avg_cost |-> 10, current_price |-> 0],
   [shares |-> 5, avg_cost |-> 10, current_price |-> -1]}

\* the price of a stock the user holds no position in
UnheldPrice == 6

\* The Portfolio and the Watchlist page mounting over any stored holdings of
\* the signed-in user: every stock is unheld or held in one of the cases
\* (the position of stock s has id s); the user has made one trade and
\* watches the first stock.
HoldingsInit ==
  /\ BacktestingInit
  /\ QuietInit
  /\ PortfolioInit
  /\ WatchlistInit
  /\ AlertsInit
  /\ alertsTable = <<>>
  /\ \E held \in [1..MaxStocks -> HoldingCases \cup {NULL}] :
       /\ stocks =
            [s \in 1..MaxStocks |->
               [id |-> s,
                current_price |-> IF held[s] = NULL THEN UnheldPrice
                                  ELSE held[s].current_price]]
       /\ portfolios =
            [s \in {t \in 1..MaxStocks : held[t] # NULL} |->
               [id |-> s, user_id |-> User, stock_id |-> s,
                shares |-> held[s].shares, avg_cost |-> held[s].avg_cost]]
  /\ nextPositionId = MaxStocks + 1
  /\ tradesTable =
       <<[id |-> 1, user_id |-> User, stock_id |-> 1, trade_type |-> "BUY",
          shares |-> 10, price |-> 5]>>
  /\ watchlists = [i \in {1} |-> [id |-> 1, user_id |-> User, stock_id |-> 1]]

HoldingsNext ==
  \/ FetchPortfolioData
  \/ \E k \in 1..MaxStocks : RemovePosition(k)
  \/ FetchData

SpecHoldings == HoldingsInit /\ [][HoldingsNext]_vars

\* the shares and average cost a writer stores: a first buy of 10 at 5, and
\* the position after a second buy of 5 at 8
PositionChoices == {<<10, 5>>, <<15, 6>>}

\* the stocks positions are written for
TradedStocks == {1, 2}

\* The Portfolio page of the signed-in user while the two users' positions
\* are written and deleted.
PositionsInit ==
  /\ BacktestingInit
  /\ QuietInit
  /\ PortfolioInit
  /\ WatchlistInit
  /\ AlertsInit
  /\ alertsTable = <<>>
  /\ stocks = [s \in TradedStocks |-> [id |-> s, current_price |-> UnheldPrice]]
  /\ portfolios = <<>>
  /\ nextPositionId = 1
  /\ tradesTable = <<>>
  /\ watchlists = <<>>

PositionsNext ==
  \/ \E u \in Users, s \in TradedStocks, c \in PositionChoices :
       InsertPosition(u, s, c[1], c[2])
  \/ \E u \in Users, s \in TradedStocks, c \in PositionChoices :
       UpsertPosition(u, s, c[1], c[2])
  \/ \E id \in 1..MaxPositionRows : DeleteElsewhere(OtherUser, id)
  \/ FetchPortfolioData
  \/ \E k \in 1..MaxPositionRows : RemovePosition(k)

SpecPositions == PositionsInit /\ [][PositionsNext]_vars

\* a row of public.alerts as the pipeline inserts it for user
AlertRow(id, user) ==
  [id |-> id, user_id |-> user, stock_id |-> 1,
   trigger_type |-> IF id % 2 = 1 THEN "Volume Spike" ELSE "Price Breakout",
   tier |-> "A", price |-> UnheldPrice, rationale |-> <<"rationale", id>>,
   is_read |-> FALSE, is_dismissed |-> FALSE, created_at |-> id]

\* The widget and the Alerts page mounting over the alerts the pipeline has
\* created: MaxAlerts of the signed-in user, then one of another user and
\* one of no user.
AlertsTableInit ==
  /\ BacktestingInit
  /\ QuietInit
  /\ PortfolioInit
  /\ WatchlistInit
  /\ AlertsInit
  /\ stocks = [s \in {1} |-> [id |-> s, current_price |-> UnheldPrice]]
  /\ portfolios = <<>>
  /\ nextPositionId = 1
  /\ tradesTable = <<>>
  /\ watchlists = <<>>
  /\ alertsTable =
       [i \in 1..(MaxAlerts + 2) |->
          AlertRow(i, IF i <= MaxAlerts THEN User
                      ELSE IF i = MaxAlerts + 1 THEN OtherUser ELSE NoUser)]

AlertsNext ==
  \/ FetchAlerts
  \/ \E k \in 1..MaxAlerts : MarkAsRead(k)
  \/ \E k \in 1..MaxAlerts : DismissAlert(k)
  \/ AlertsFetchAlerts
  \/ \E k \in 1..MaxAlerts : AlertsMarkAsRead(k)
  \/ \E k \in 1..MaxAlerts : AlertsDismissAlert(k)

SpecAlerts == AlertsTableInit /\ [][AlertsNext]_vars

\* The Portfolio page mounting over MaxPositionRows stored positions of the
\* signed-in user (the position of stock s has id s), who then removes
\* positions without waiting for the earlier removals to be answered.
RemovalsInit ==
  /\ BacktestingInit
  /\ QuietInit
  /\ PortfolioInit
  /\ WatchlistInit
  /\ AlertsInit
  /\ alertsTable = <<>>
  /\ stocks = [s \in 1..MaxPositionRows |->
                 [id |-> s, current_price |-> UnheldPrice]]
  /\ portfolios = [s \in 1..MaxPositionRows |->
                     [id |-> s, user_id |-> User, stock_id |-> s,
                      shares |-> 10, avg_cost |-> 5]]
  /\ nextPositionId = MaxPositionRows + 1
  /\ tradesTable = <<>>
  /\ watchlists = <<>>

RemovalsNext ==
  \/ FetchPortfolioData
  \/ \E k \in 1..MaxPositionRows : RemoveClick(k)
  \/ \E id \in 1..MaxPositionRows, ok \in BOOLEAN : RemoveSettle(id, ok)

SpecRemovals == RemovalsInit /\ [][RemovalsNext]_vars

\* the draws of a run every weekly return of which is 1 percent
SteadyDraws == {d \in DrawSeqs(MaxPoints) : \A k \in 1..Len(d) : d[k] = 1}

\* The Backtesting page running and deleting backtests of one parameter
\* set, every request of fetchBacktests and deleteBacktest taking its own
\* time to be answered.
DeletionsNext ==
  \/ RunBacktest(FormParams("bt", 7, 100000, Stocks))
  \/ \E id \in 1..MaxBacktests, draws \in SteadyDraws, stat \in StatDraws,
        ok \in BOOLEAN : TimerFire(id, draws, stat, ok)
  \/ \E id \in 1..MaxBacktests : CallbackResume(id)
  \/ FetchServe
  \/ \E n \in 1..(MaxBacktests + 1) : FetchResume(n)
  \/ \E k \in 1..MaxBacktests : SelectBacktest(k)
  \/ \E k \in 1..MaxBacktests : DeleteClick(k)
  \/ \E id \in 1..MaxBacktests, ok \in BOOLEAN : DeleteSettle(id, ok)

SpecDeletions == Init /\ [][DeletionsNext]_vars

\* The alerts widget mounting over the stored alerts, whose user then marks
\* and dismisses alerts without waiting for the earlier updates to be
\* answered.
WidgetNext ==
  \/ FetchAlerts
  \/ \E k \in 1..MaxAlerts, flag \in {"is_read", "is_dismissed"} :
       AlertClick(k, flag)
  \/ \E id \in 1..MaxAlerts, flag \in {"is_read", "is_dismissed"},
        ok \in BOOLEAN : AlertSettle(id, flag, ok)

SpecWidget == AlertsTableInit /\ [][WidgetNext]_vars

\* The five tables holding a row of the signed-in user (id 1) and a row of
\* another user (id 2), public.alerts also a row of no user (id 3), and the
\* requests a session of the signed-in user, or one that is not signed in,
\* can send for any id.
AccessInit ==
  /\ backtests = Mounted.backtests
  /\ selectedBacktest = Mounted.selectedBacktest
  /\ loading = Mounted.loading
  /\ toast = Mounted.toast
  /\ runs = Mounted.runs
  /\ fetchSent = Mounted.fetchSent
  /\ otherTab = Mounted
  /\ PortfolioInit
  /\ WatchlistInit
  /\ AlertsInit
  /\ QuietInit
  /\ stocks = [s \in TradedStocks |-> [id |-> s, current_price |-> UnheldPrice]]
  /\ db = InsertRow(InsertRow(<<>>, 1, User, FormParams("bt", 7, 100000, Stocks)),
                    2, OtherUser, FormParams("bt", 7, 100000, Stocks))
  /\ nextId = 3
  /\ portfolios = WithPosition(WithPosition(<<>>, 1, User, 1, 10, 5),
                               2, OtherUser, 1, 10, 5)
  /\ nextPositionId = 3
  /\ tradesTable =
       [i \in 1..2 |->
          [id |-> i, user_id |-> IF i = 1 THEN User ELSE OtherUser,
           stock_id |-> 1, trade_type |-> "BUY", shares |-> 10, price |-> 5]]
  /\ watchlists =
       [i \in 1..2 |->
          [id |-> i, user_id |-> IF i = 1 THEN User ELSE OtherUser,
           stock_id |-> 1]]
  /\ alertsTable =
       [i \in 1..3 |->
          AlertRow(i, IF i = 1 THEN User
                      ELSE IF i = 2 THEN OtherUser ELSE NoUser)]

AccessNext ==
  \E uid \in {User, NoUser}, t \in TableNames, cmd \in Commands, id \in 1..3 :
    Request(uid, t, cmd, id)

SpecAccess == AccessInit /\ [][AccessNext]_vars

\* The Dashboard opens on a public.stocks of MaxListed rows with any scores,
\* volumes and is_active flags; DashboardCharts is rendered again whenever
\* the Dashboard is.
DashboardStocksInit ==
  /\ BacktestingInit
  /\ PortfolioInit
  /\ WatchlistInit
  /\ AlertsInit
  /\ NoCalls
  /\ DashboardInit
  /\ ChartInit
  /\ KeysInit
  /\ alertsTable = <<>>
  /\ portfolios = <<>>
  /\ nextPositionId = 1
  /\ tradesTable = <<>>
  /\ watchlists = <<>>
  /\ \E score \in [ListedStocks -> Scores], volume \in [ListedStocks -> Volumes],
        active \in [ListedStocks -> BOOLEAN] :
       stocks = [s \in ListedStocks |->
                   [id |-> s, current_price |-> UnheldPrice, score |-> score[s],
                    volume |-> volume[s], is_active |-> active[s]]]

DashboardNext ==
  \/ \E ok \in BOOLEAN : FetchStocks(ok)
  \/ RenderDashboardCharts

SpecDashboard == DashboardStocksInit /\ [][DashboardNext]_vars

\* A PriceChart has mounted for a stock, compact or not, and its effect has
\* called fetchPriceData.
ChartMountedInit ==
  /\ BacktestingInit
  /\ PortfolioInit
  /\ WatchlistInit
  /\ NoHoldings
  /\ AlertsInit
  /\ NoCalls
  /\ DashboardInit
  /\ KeysInit
  /\ alertsTable = <<>>
  /\ stockPrices = PriceRows
  /\ stockId \in ChartedStocks
  /\ compact \in BOOLEAN
  /\ timeRange = "1D"
  /\ priceData = NoData
  /\ chartLoading = TRUE
  /\ priceCalls = <<[stockId |-> stockId, timeRange |-> "1D"]>>

ChartNext ==
  \/ \E range \in TimeRanges : SetTimeRange(range)
  \/ \E stock \in ChartedStocks : ShowStock(stock)
  \/ \E k \in 1..MaxPriceCalls, ok \in BOOLEAN : PriceSettle(k, ok)

SpecChart == ChartMountedInit /\ [][ChartNext]_vars

\* The runs of the page alone, under the scheduling of the browser: a timer
\* that has been set fires (setTimeout, 3000 ms), and a callback awaiting
\* the reply of its update resumes once the service has replied.
SomeTimerFires ==
  \E id \in 1..MaxBacktests, draws \in DrawSeqs(MaxPoints),
     stat \in StatDraws, ok \in BOOLEAN : TimerFire(id, draws, stat, ok)

SomeCallbackResumes == \E id \in 1..MaxBacktests : CallbackResume(id)

RunsNext ==
  \/ \E p \in ParamChoices : RunBacktest(p)
  \/ SomeTimerFires
  \/ SomeCallbackResumes

SpecRuns ==
  /\ Init
  /\ [][RunsNext]_vars
  /\ WF_vars(SomeTimerFires)
  /\ WF_vars(SomeCallbackResumes)

\* public.user_api_keys after another user has stored a key under the
\* default name: the state store_user_api_key leaves over the empty table
KeysStoredInit ==
  /\ BacktestingInit
  /\ PortfolioInit
  /\ WatchlistInit
  /\ NoHoldings
  /\ AlertsInit
  /\ NoCalls
  /\ DashboardInit
  /\ ChartInit
  /\ alertsTable = <<>>
  /\ userApiKeys =
       <<[id |-> 1, user_id |-> OtherUser, encrypted_api_key |-> "k1",
          key_name |-> "Trading API Key", created_at |-> 1,
          last_used_at |-> 0, is_active |-> TRUE]>>
  /\ keyCalls =
       <<[fn |-> "store", user |-> OtherUser, name |-> "Trading API Key",
          key |-> "k1", result |-> TRUE]>>

\* Sessions of two users, and sessions that are not signed in, call the two
\* functions and deactivate keys in any order.
KeysNext ==
  \E uid \in {User, OtherUser, NoUser}, name \in KeyNames :
    \/ \E key \in ApiKeys : StoreUserApiKey(uid, key, name)
    \/ GetUserApiKey(uid, name)
    \/ DeactivateKey(uid, name)

SpecKeys == KeysStoredInit /\ [][KeysNext]_vars

(***************************************************************************)
(* Properties                                                              *)
(***************************************************************************)
\* the validations the specification gives simulateBacktest
SpecValid(p) ==
  /\ p.stocks # {}
  /\ p.endDate > p.startDate
  /\ p.initialCapital > 0

Completed(id) == id \in DOMAIN db /\ db[id].results # NULL

Series(id) == db[id].results.performanceData

StatusStep(a, b) ==
  \/ a = b
  \/ <<a, b>> \in {<<"pending", "running">>, <<"running", "completed">>,
                   <<"running", "failed">>}

\* C1: the status of a backtest row only moves pending -> running ->
\* completed or failed: no step changes the status of a completed or failed
\* row, and every row that appears is a new one (an id no row has had) in
\* status pending or running.
C1_StatusOnlyMovesForward ==
  [][/\ \A id \in DOMAIN db \cap DOMAIN db' :
          StatusStep(db[id].status, db'[id].status)
     /\ \A id \in DOMAIN db' \ DOMAIN db :
          /\ id >= nextId
          /\ db'[id].status \in {"pending", "running"}]_vars

\* a completed backtest with a later run next to it
C1_Witness ==
  \E i, j \in DOMAIN db :
    i < j /\ db[i].status = "completed" /\ db[j].status = "completed"

\* C2: a backtest whose deferred work has ended (leaving aside a rejected
\* update) is completed; it is never left in status running.
C2_StartedRunCompletes ==
  \A id \in DOMAIN runs :
    (id \in DOMAIN db /\ runs[id].pc \in {"done", "threw_generate"})
      => db[id].status = "completed"

\* C3: runBacktest with parameters that fail a validation (empty stock list,
\* end_date not after start_date, initial_capital not positive) inserts or
\* updates no row and schedules no deferred completion.
C3_InvalidParamsMutateNothing ==
  [][\A p \in ParamChoices :
       (~SpecValid(p) /\ RunBacktest(p)) => UNCHANGED <<db, nextId, runs>>]_vars

\* C4 as stated: runBacktest with an empty stock list reports
\* NoStocksSelected and starts nothing.
C4_EmptyStocksReportsNoStocks ==
  [][\A p \in ParamChoices :
       (p.stocks = {} /\ RunBacktest(p))
         => (toast' = ToastNoStocksSelected /\ UNCHANGED <<db, nextId, runs>>)]_vars

\* C4, amended: runBacktest with an empty stock list is rejected in the
\* click itself and starts nothing (no row, no timer, loading unchanged);
\* the error reported is NoStocksSelected when the name is not empty and the
\* missing-name error when it is, the name being checked first.
C4_EmptyStocksRejected ==
  [][\A p \in ParamChoices :
       (p.stocks = {} /\ RunBacktest(p))
         => /\ toast' = IF p.name = "" THEN ToastNameRequired
                                       ELSE ToastNoStocksSelected
            /\ UNCHANGED <<db, nextId, runs, loading, fetchSent, backtests,
                           selectedBacktest>>]_vars

\* the NoStocksSelected error on the screen, nothing started
C4_Witness == toast = ToastNoStocksSelected /\ runs = <<>>

\* C5: no results are produced for a date range whose end_date is not
\* strictly after its start_date.
C5_NoResultsForEmptyDateRange ==
  \A id \in DOMAIN db :
    db[id].parameters.endDate <= db[id].parameters.startDate
      => db[id].results = NULL

\* C6: no results are produced for an initial_capital that is not positive.
C6_NoResultsForNonPositiveCapital ==
  \A id \in DOMAIN db :
    db[id].parameters.initialCapital <= 0 => db[id].results = NULL

\* C7: runBacktest with parameters that fail a validation surfaces an error
\* and leaves a backtest of those parameters in status failed.
C7_InvalidParamsEndFailed ==
  [][\A p \in ParamChoices :
       (~SpecValid(p) /\ RunBacktest(p))
         => /\ toast'.variant = "destructive"
            /\ \E id \in DOMAIN db' :
                 db'[id].parameters = p /\ db'[id].status = "failed"]_vars

\* C8: the first point of every performance series has portfolio_value
\* equal to initial_capital.
C8_FirstPointIsInitialCapital ==
  \A id \in DOMAIN db :
    Completed(id)
      => Series(id)[1].portfolioValue = db[id].parameters.initialCapital

\* C9 as stated: for a positive initial_capital the benchmark of every
\* weekly point is strictly greater than that of the point before.
C9_BenchmarkStrictlyIncreasing ==
  \A id \in DOMAIN db :
    (Completed(id) /\ db[id].parameters.initialCapital > 0)
      => \A k \in 1..(Len(Series(id)) - 1) :
           Series(id)[k + 1].benchmark > Series(id)[k].benchmark

\* C9, amended: the benchmark is rounded to a whole number, so for an
\* initial_capital >= 0 it never decreases from one weekly point to the
\* next, and for an initial_capital >= 678 (a week's growth is then at least
\* 1) it strictly increases.
C9_BenchmarkIncreasing ==
  \A id \in DOMAIN db :
    Completed(id)
      => \A k \in 1..(Len(Series(id)) - 1) :
           /\ db[id].parameters.initialCapital >= 0
                => Series(id)[k + 1].benchmark >= Series(id)[k].benchmark
           /\ db[id].parameters.initialCapital >= 678
                => Series(id)[k + 1].benchmark > Series(id)[k].benchmark

\* a series of three weekly points at the smallest capital that is sure to
\* grow every week
C9_Witness ==
  \E id \in DOMAIN db :
    /\ Completed(id)
    /\ db[id].parameters.initialCapital = 678
    /\ Len(Series(id)) = 3

\* the rows a and b were run over the same dates with the same capital
SameRange(a, b) ==
  /\ db[a].parameters.startDate = db[b].parameters.startDate
  /\ db[a].parameters.endDate = db[b].parameters.endDate
  /\ db[a].parameters.initialCapital = db[b].parameters.initialCapital

\* C10: two runs with the same start_date, end_date and initial_capital
\* have the same dates and the same benchmark at every point, whatever
\* their random draws.
C10_BenchmarkIndependentOfDraws ==
  \A a, b \in DOMAIN db :
    (Completed(a) /\ Completed(b) /\ SameRange(a, b))
      => /\ Len(Series(a)) = Len(Series(b))
         /\ \A k \in 1..Len(Series(a)) :
              /\ Series(a)[k].date = Series(b)[k].date
              /\ Series(a)[k].benchmark = Series(b)[k].benchmark

\* two runs of the same parameters whose draws gave different portfolio
\* values
C10_Witness ==
  \E a, b \in DOMAIN db :
    /\ Completed(a) /\ Completed(b) /\ SameRange(a, b)
    /\ \E k \in 1..Len(Series(a)) :
         Series(a)[k].portfolioValue # Series(b)[k].portfolioValue

\* C11: the results a run stores are those of every run with the same dates,
\* initial_capital and random draws, whatever the strategy, the rebalance
\* frequency and the risk management thresholds of that other run; the row
\* keeps the parameters as they were entered.
C11_ConfigurationIsInert ==
  [][\A id \in 1..MaxBacktests, draws \in DrawSeqs(MaxPoints),
        stat \in StatDraws :
       TimerFire(id, draws, stat, TRUE)
         => /\ \A q \in ConfigParamChoices :
                 (/\ q.startDate = runs[id].params.startDate
                  /\ q.endDate = runs[id].params.endDate
                  /\ q.initialCapital = runs[id].params.initialCapital)
                   => db'[id].results =
                        GenerateMockBacktestResults(q, draws, stat)
            /\ db'[id].parameters = runs[id].params]_vars

\* two completed runs of the same range that differ in all of the strategy,
\* the rebalance frequency and the risk settings they stored, with the same
\* results
C11_Witness ==
  \E a, b \in DOMAIN db :
    /\ Completed(a) /\ Completed(b) /\ SameRange(a, b)
    /\ db[a].parameters.strategy # db[b].parameters.strategy
    /\ db[a].parameters.rebalanceFrequency # db[b].parameters.rebalanceFrequency
    /\ db[a].parameters.riskManagement # db[b].parameters.riskManagement
    /\ db[a].results = db[b].results

\* the sum of f over the set S of its arguments
RECURSIVE SumOver(_, _)
SumOver(f, S) ==
  IF S = {} THEN 0
  ELSE LET k == CHOOSE j \in S : TRUE
       IN  f[k] + SumOver(f, S \ {k})

\* the aggregate the specification gives aggregatePortfolio for the list ps
AggregateOf(ps) ==
  LET total_value ==
        SumOver([k \in 1..Len(ps) |-> ps[k].shares * ps[k].stock.current_price],
                1..Len(ps))
      total_cost ==
        SumOver([k \in 1..Len(ps) |-> ps[k].shares * ps[k].avg_cost],
                1..Len(ps))
  IN  <<total_value, total_cost, total_value - total_cost,
        IF total_cost > 0
        THEN Rat((total_value - total_cost) * 100, total_cost)
        ELSE <<0, 1>>>>

\* ps is the list [(10 shares, avg_cost 5, price 6), (5, 10, 8)]
IsExampleList(ps) ==
  /\ Len(ps) = 2
  /\ ps[1].shares = 10 /\ ps[1].avg_cost = 5 /\ ps[1].stock.current_price = 6
  /\ ps[2].shares = 5 /\ ps[2].avg_cost = 10 /\ ps[2].stock.current_price = 8

\* the four values agg are the specified aggregate of ps
AggregateAsSpecified(ps, agg) ==
  /\ agg = AggregateOf(ps)
  /\ ps = <<>> => agg = <<0, 0, 0, <<0, 1>>>>
  /\ IsExampleList(ps) => agg = <<100, 100, 0, <<0, 1>>>>
  /\ agg[2] <= 0 => agg[4] = <<0, 1>>

\* C12: the aggregate of the Portfolio page and of the Watchlist page is
\* total_value = sum(shares * current_price), total_cost = sum(shares *
\* avg_cost), total_gain_loss their difference and total_gain_loss_percent
\* = total_gain_loss / total_cost * 100 when total_cost > 0 and 0 otherwise;
\* the empty list gives 0, 0, 0, 0 and the list [(10,5,6),(5,10,8)] gives
\* 100, 100, 0, 0.
C12_AggregateAsSpecified ==
  /\ LET m == CalculateMetrics(positions)
     IN  AggregateAsSpecified(positions,
           <<m.totalValue, m.totalCost, m.totalGainLoss,
             m.totalGainLossPercent>>)
  /\ LET m == PortfolioSummary(portfolioStocks)
     IN  AggregateAsSpecified(portfolioStocks,
           <<m.portfolioValue, m.portfolioCost, m.portfolioPnL,
             m.portfolioReturn>>)

\* both pages have loaded the example list
C12_Witness ==
  /\ ~pfLoading /\ IsExampleList(positions)
  /\ ~wlLoading /\ IsExampleList(portfolioStocks)

\* the positions of ps whose current_price equals their avg_cost
Ties(ps) ==
  Cardinality({k \in 1..Len(ps) : ps[k].stock.current_price = ps[k].avg_cost})

\* C13: winners counts the positions with current_price > avg_cost, losers
\* those with current_price < avg_cost, and a position with current_price =
\* avg_cost is in neither count: winners + losers + ties is the number of
\* positions.
C13_WinnersLosersTies ==
  /\ Winners(portfolioStocks) =
       Len(SelectSeq(portfolioStocks,
                     LAMBDA q : q.stock.current_price > q.avg_cost))
  /\ Losers(portfolioStocks) =
       Len(SelectSeq(portfolioStocks,
                     LAMBDA q : q.stock.current_price < q.avg_cost))
  /\ Winners(portfolioStocks) + Losers(portfolioStocks) + Ties(portfolioStocks)
       = Len(portfolioStocks)
  /\ Winners(portfolioStocks) + Losers(portfolioStocks) <= Len(portfolioStocks)

\* the Watchlist page shows three positions: a winner, a loser and a tie
C13_Witness ==
  /\ ~wlLoading
  /\ Len(portfolioStocks) = 3
  /\ Winners(portfolioStocks) = 1
  /\ Losers(portfolioStocks) = 1
  /\ Ties(portfolioStocks) = 1

\* the position q has shares > 0, avg_cost > 0 and current_price > 0
WellFormed(q) == q.shares > 0 /\ q.avg_cost > 0 /\ q.stock.current_price > 0

\* C14: for every position with shares > 0, avg_cost > 0 and current_price
\* > 0 the row of the Portfolio page and the row of the Watchlist holdings
\* table show market_value = shares * current_price, cost_basis = shares *
\* avg_cost, gain_loss = market_value - cost_basis and gain_loss_percent =
\* gain_loss / cost_basis * 100.
C14_PositionMetrics ==
  /\ \A k \in 1..Len(positions) :
       WellFormed(positions[k])
         => LET q == positions[k]
                r == PositionRow(q)
            IN  /\ r.currentValue = q.shares * q.stock.current_price
                /\ r.costBasis = q.shares * q.avg_cost
                /\ r.gainLoss = r.currentValue - r.costBasis
                /\ r.gainLossPercent = Rat(r.gainLoss * 100, r.costBasis)
  /\ \A k \in 1..Len(portfolioStocks) :
       WellFormed(portfolioStocks[k])
         => LET q == portfolioStocks[k]
                r == HoldingRow(q)
            IN  /\ r.marketValue = q.shares * q.stock.current_price
                /\ r.costBasis = q.shares * q.avg_cost
                /\ r.pnl = r.marketValue - r.costBasis
                /\ r.returnPercent = Rat(r.pnl * 100, r.costBasis)

\* both pages show a position with a gain of 20% (60 over 50) and one with
\* a loss of 20% (40 over 50)
C14_Witness ==
  /\ ~pfLoading /\ ~wlLoading
  /\ \E k, l \in 1..Len(positions) :
       /\ WellFormed(positions[k]) /\ WellFormed(positions[l])
       /\ PositionRow(positions[k]).gainLossPercent = <<20, 1>>
       /\ PositionRow(positions[l]).gainLossPercent = <<-20, 1>>
  /\ \E k, l \in 1..Len(portfolioStocks) :
       /\ WellFormed(portfolioStocks[k]) /\ WellFormed(portfolioStocks[l])
       /\ HoldingRow(portfolioStocks[k]).returnPercent = <<20, 1>>
       /\ HoldingRow(portfolioStocks[l]).returnPercent = <<-20, 1>>

\* the errors the specification gives computePositionMetrics
InvalidQuote == [error |-> "InvalidQuote"]
DivisionByZero == [error |-> "DivisionByZero"]

\* C15: for every position whose current_price is zero or negative the
\* per-position metrics fail with InvalidQuote; no market value or
\* gain/loss is computed.
C15_NonPositiveQuoteIsInvalid ==
  /\ \A k \in 1..Len(positions) :
       positions[k].stock.current_price <= 0
         => PositionRow(positions[k]) = InvalidQuote
  /\ \A k \in 1..Len(portfolioStocks) :
       portfolioStocks[k].stock.current_price <= 0
         => HoldingRow(portfolioStocks[k]) = InvalidQuote

\* C16: for every position whose cost_basis (shares * avg_cost) is not
\* greater than 0 the per-position metrics fail with DivisionByZero, so
\* that no gain_loss_percent comes out of a division by zero.
C16_NonPositiveCostBasisIsGuarded ==
  /\ \A k \in 1..Len(positions) :
       positions[k].shares * positions[k].avg_cost <= 0
         => PositionRow(positions[k]) = DivisionByZero
  /\ \A k \in 1..Len(portfolioStocks) :
       portfolioStocks[k].shares * portfolioStocks[k].avg_cost <= 0
         => HoldingRow(portfolioStocks[k]) = DivisionByZero

\* no two rows of the table tbl hold the same (user, stock) pair
OneRowPerUserStock(tbl) ==
  \A i, j \in DOMAIN tbl :
    (tbl[i].user_id = tbl[j].user_id /\ tbl[i].stock_id = tbl[j].stock_id)
      => i = j

\* C17: every step of the writers and of the page leaves at most one row
\* per (user, stock) pair in public.portfolios, and an upsert for a pair
\* that has a row changes that row and adds none.
C17_OneRowPerUserStock ==
  [][/\ OneRowPerUserStock(portfolios')
     /\ \A u \in Users, t \in TradedStocks, c \in PositionChoices :
          (UpsertPosition(u, t, c[1], c[2]) /\ Conflict(portfolios, u, t))
            => /\ DOMAIN portfolios' = DOMAIN portfolios
               /\ \E i \in DOMAIN portfolios :
                    /\ portfolios[i].user_id = u /\ portfolios[i].stock_id = t
                    /\ portfolios'[i].shares = c[1]
                    /\ portfolios'[i].avg_cost = c[2]]_vars

\* both users hold a position in the same stock, the signed-in user's
\* upserted a second time (15 shares at 6), after a row has been deleted
C17_Witness ==
  /\ \E i, j \in DOMAIN portfolios :
       /\ portfolios[i].user_id = User /\ portfolios[j].user_id = OtherUser
       /\ portfolios[i].stock_id = portfolios[j].stock_id
       /\ portfolios[i].shares = 15
  /\ \E i \in 1..(nextPositionId - 1) : i \notin DOMAIN portfolios

\* the step changes the table of alerts at most in the flag of the row id
ChangesOnlyFlag(id, flag) ==
  /\ DOMAIN alertsTable' = DOMAIN alertsTable
  /\ \A i \in DOMAIN alertsTable :
       \/ alertsTable'[i] = alertsTable[i]
       \/ /\ i = id
          /\ alertsTable'[i] = [alertsTable[i] EXCEPT ![flag] = TRUE]

\* C18: no handler of the widget or of the Alerts page deletes an alert;
\* markAsRead changes nothing of the table but is_read of the alert
\* clicked, dismissAlert nothing but its is_dismissed, the fetches nothing:
\* trigger_type, tier, price, rationale, stock, user and created_at of
\* every alert stay as they are and so does every other row.
C18_OnlyFlagsChange ==
  [][/\ \A k \in 1..MaxAlerts :
          /\ MarkAsRead(k)
               => ChangesOnlyFlag(RecentAlerts(widgetAlerts)[k].id, "is_read")
          /\ DismissAlert(k)
               => ChangesOnlyFlag(RecentAlerts(widgetAlerts)[k].id,
                                  "is_dismissed")
          /\ AlertsMarkAsRead(k) => ChangesOnlyFlag(alerts[k].id, "is_read")
          /\ AlertsDismissAlert(k)
               => ChangesOnlyFlag(alerts[k].id, "is_dismissed")
     /\ (FetchAlerts \/ AlertsFetchAlerts) => UNCHANGED alertsTable]_vars

\* one alert of the signed-in user read and dismissed, another untouched,
\* with the alerts of the other user and of no user as they were
C18_Witness ==
  /\ \E i, j \in 1..MaxAlerts :
       /\ alertsTable[i].is_read /\ alertsTable[i].is_dismissed
       /\ ~alertsTable[j].is_read /\ ~alertsTable[j].is_dismissed
  /\ alertsTable[MaxAlerts + 1] = AlertRow(MaxAlerts + 1, OtherUser)
  /\ alertsTable[MaxAlerts + 2] = AlertRow(MaxAlerts + 2, NoUser)

(***************************************************************************)
(* Concurrent runs                                                         *)
(***************************************************************************)
\* the runs of a tab whose callback has not come to its end
InFlight(r) ==
  {id \in DOMAIN r : r[id].pc \in {"timer", "update_ok", "update_error"}}

\* the step leaves the callbacks of every run but id as they are, in the tab
\* in front and in the other one
OtherRunsUntouched(id) ==
  /\ \A j \in DOMAIN runs \ {id} : j \in DOMAIN runs' /\ runs'[j] = runs[j]
  /\ otherTab' = otherTab

\* C19 as stated: the user may start a second backtest while an earlier one
\* is still running, that is, whenever a run of the page is in flight (and
\* the table has room for another row) the Run Backtest button is enabled.
C19_SecondRunWhileRunning ==
  (InFlight(runs) # {} /\ nextId <= MaxBacktests) => ~loading

\* C19 as the code has it: a page starts a run only when none of its own runs
\* is in flight (a second one is started from another tab); the completion
\* of run id writes no row but the one keyed by id, gives it the results
\* computed from the parameters stored in that row, which are the ones the
\* run was started with, and neither the write nor the end of the callback
\* changes the callback of another run or the page of the other tab.
C19_RunsAreIndependent ==
  [][/\ \A p \in TabParamChoices :
          RunBacktest(p) => InFlight(runs) = {}
     /\ \A id \in 1..MaxBacktests, draws \in DrawSeqs(MaxPoints),
           stat \in StatDraws, ok \in BOOLEAN :
          TimerFire(id, draws, stat, ok) =>
            /\ DOMAIN db' = DOMAIN db
            /\ \A j \in DOMAIN db \ {id} : db'[j] = db[j]
            /\ db[id].parameters = runs[id].params
            /\ db'[id] # db[id] =>
                  /\ ok
                  /\ db'[id] =
                       [db[id] EXCEPT
                          !.status = "completed",
                          !.results = GenerateMockBacktestResults(
                                        db[id].parameters, draws, stat),
                          !.completed_at = Now]
            /\ OtherRunsUntouched(id)
     /\ \A id \in 1..MaxBacktests :
          CallbackResume(id) => db' = db /\ OtherRunsUntouched(id)
    ]_vars

\* two runs of different capitals are in flight at once, one in each tab;
\* the one in front has written its results and the other one has not
C19_Witness ==
  \E id \in DOMAIN runs, j \in DOMAIN otherTab.runs :
    /\ runs[id].pc = "update_ok"
    /\ otherTab.runs[j].pc = "timer"
    /\ db[id].status = "completed"
    /\ db[j].status = "running"
    /\ db[id].parameters.initialCapital # db[j].parameters.initialCapital

(***************************************************************************)
(* The completion is one mutation                                          *)
(***************************************************************************)
\* status, results and completed_at of a backtest row agree
Settled(b) ==
  /\ (b.status = "completed") <=> (b.results # NULL)
  /\ (b.status = "completed") <=> (b.completed_at # NULL)
  /\ b.status = "running" => b.results = NULL

\* C20: the completion of a run sets status, results and completed_at in
\* one update, so in every reachable state a backtest row, in the table or
\* as the page lists it, is completed exactly when its results are populated
\* and exactly when its completed_at is set, and a running row has null
\* results.
C20_CompletionIsOneMutation ==
  /\ \A i \in DOMAIN db : Settled(db[i])
  /\ \A k \in 1..Len(backtests) : Settled(backtests[k])

\* the table holds a completed row with its results next to a running one,
\* and the page lists both
C20_Witness ==
  /\ \E i, j \in DOMAIN db :
       /\ db[i].status = "completed" /\ db[i].results # NULL
       /\ db[j].status = "running" /\ db[j].results = NULL
  /\ \E k, l \in 1..Len(backtests) :
       backtests[k].status = "completed" /\ backtests[l].status = "running"

(***************************************************************************)
(* Row access                                                              *)
(***************************************************************************)
\* C21: a request made as user U reads, updates or deletes a row only if
\* the row's user_id is U: whatever the command and the id it names, every
\* row of the five tables that is not U's is still stored unchanged after
\* it, and the answer holds rows of U only.
C21_RowAccessScoped ==
  [][\A t \in TableNames :
       /\ \A i \in DOMAIN TableOf(t) :
            TableOf(t)[i].user_id # reply'.user =>
              i \in DOMAIN TableOf(t)' /\ TableOf(t)'[i] = TableOf(t)[i]
       /\ \A r \in reply'.rows : r.user_id = reply'.user
    ]_vars

\* the signed-in user has asked to delete the position of the other user by
\* its id: the answer is empty and the row is stored, while the user's own
\* position is gone
C21_Witness ==
  /\ reply # NULL
  /\ reply.user = User /\ reply.table = "portfolios"
  /\ reply.command = "DELETE" /\ reply.id = 2
  /\ reply.rows = {}
  /\ DOMAIN portfolios = {2}
  /\ portfolios[2].user_id = OtherUser

(***************************************************************************)
(* The weekly points                                                       *)
(***************************************************************************)
\* C22: with total_days = end_date - start_date, the performance series of
\* a run has exactly floor(total_days / 7) + 1 points, the k-th of them
\* 7 * (k - 1) days after start_date, so that the dates increase strictly,
\* and none of them is later than end_date.
C22_WeeklyPoints ==
  \A id \in DOMAIN db :
    Completed(id) =>
      LET q == db[id].parameters
          total_days == q.endDate - q.startDate
      IN  /\ Len(Series(id)) = total_days \div 7 + 1
          /\ \A k \in 1..Len(Series(id)) :
               /\ Series(id)[k].date = q.startDate + 7 * (k - 1)
               /\ Series(id)[k].date <= q.endDate
               /\ k > 1 => Series(id)[k].date > Series(id)[k - 1].date

\* a run over 17 days has stored three points, the last of them on day 14
C22_Witness ==
  \E id \in DOMAIN db :
    /\ Completed(id)
    /\ db[id].parameters.endDate - db[id].parameters.startDate = 17
    /\ Len(Series(id)) = 3
    /\ Series(id)[3].date = db[id].parameters.startDate + 14

(***************************************************************************)
(* Overlapping removals                                                    *)
(***************************************************************************)
\* the ids of the positions the page lists
Listed == {positions[k].id : k \in 1..Len(positions)}

\* C23: once every removePosition call has settled, all of them with the
\* delete done, the list of the page holds none of the removed positions:
\* it holds exactly the positions still stored.
C23_RemovedPositionsStayRemoved ==
  (/\ DOMAIN removing # {}
   /\ \A id \in DOMAIN removing : removing[id].pc = "done")
    => /\ Listed \cap DOMAIN removing = {}
       /\ Listed = DOMAIN portfolios

(***************************************************************************)
(* Overlapping updates of alerts                                           *)
(***************************************************************************)
\* C24: in the widget, an alert whose dismissAlert has succeeded is not in
\* the local list again, and an alert whose markAsRead has succeeded is
\* read in the local list, whatever calls on other alerts overlap with it.
C24_DismissedStaysGoneReadStaysRead ==
  \A c \in DOMAIN flagging :
    flagging[c].pc = "done" =>
      \A k \in 1..Len(widgetAlerts) :
        widgetAlerts[k].id = c[1] =>
          c[2] = "is_read" /\ widgetAlerts[k].is_read

(***************************************************************************)
(* Deleted backtests                                                       *)
(***************************************************************************)
\* C25: a backtest whose deleteBacktest has succeeded is not stored, not in
\* the history list and not the selected backtest, whatever the order in
\* which the steps of its deferred completion and of the fetchBacktests
\* after it happen.
C25_DeletedStaysDeleted ==
  \A id \in DOMAIN deleting :
    deleting[id].pc = "done" =>
      /\ id \notin DOMAIN db
      /\ \A k \in 1..Len(backtests) : backtests[k].id # id
      /\ selectedBacktest # NULL => selectedBacktest.id # id


\* scores of the elements of a list, in its order, never increase
InScoreOrder(s) == \A i, j \in DOMAIN s : i < j => s[i].score >= s[j].score

\* C26: DashboardCharts leaves the list it receives as it was fetched: after
\* any number of renders the list of the Dashboard is in an order of
\* descending score, and the stock of the top chart is one of highest score
\* in the list.
C26_StocksStayInScoreOrder ==
  /\ InScoreOrder(dashStocks)
  /\ \A k \in DOMAIN topStock : \A i \in DOMAIN dashStocks :
       stocks[topStock[k]].score >= dashStocks[i].score


\* C27: once every call of fetchPriceData has settled, the chart shows what
\* a call for the stock and the time range now selected sets (the answer of
\* the query, or the mock data of that range) and is not loading, in
\* whatever order the calls settled.
C27_SettledChartShowsSelection ==
  priceCalls = <<>> /\ stockId # 0 =>
    /\ ~chartLoading
    /\ priceData \in {PriceAnswer(stockId, timeRange), MockData(timeRange)}


\* C28: the loading flag that runBacktest sets always returns to false: on
\* every path (the insert fails, the update fails, the generation of the
\* results throws, the run completes) the Run Backtest button is enabled
\* again.
C28_LoadingEnds == loading ~> ~loading


\* C29: the load of the Portfolio page sets positions and trades together and
\* only when both queries succeed; when either query fails neither list
\* changes, the error toast is shown, and loading ends all the same.
C29_ListsLoadTogether ==
  [][\A okP, okT \in BOOLEAN :
       LoadPortfolio(okP, okT) =>
         /\ pfLoading' = FALSE
         /\ IF okP /\ okT
            THEN /\ positions' = SelectPositions(portfolios, stocks, User)
                 /\ trades' = SelectTrades(tradesTable, User)
            ELSE /\ positions' = positions
                 /\ trades' = trades
                 /\ pfToast' = ToastLoadFailed]_vars

\* a load has failed over stored positions and trades of the user: the lists
\* are as they were, the error toast is shown and loading has ended
C29_Witness ==
  /\ ~pfLoading
  /\ pfToast = ToastLoadFailed
  /\ positions = <<>>
  /\ trades = <<>>
  /\ SelectPositions(portfolios, stocks, User) # <<>>
  /\ SelectTrades(tradesTable, User) # <<>>


\* the calls before the i-th that store or deactivate the key of the user
\* and the name of the i-th call
Writes(i) ==
  {j \in 1..(i - 1) :
     /\ keyCalls[j].fn \in {"store", "deactivate"}
     /\ keyCalls[j].user = keyCalls[i].user
     /\ keyCalls[j].name = keyCalls[i].name}

\* what the i-th call, a get_user_api_key of a signed-in user, is to return:
\* the key of the last store of that user for the name, unless there is none
\* or the key was deactivated after it
LastStored(i) ==
  IF Writes(i) = {} THEN NoKey
  ELSE LET last == CHOOSE j \in Writes(i) : \A k \in Writes(i) : k <= j
       IN  IF keyCalls[last].fn = "store" THEN keyCalls[last].key ELSE NoKey

KeysAreOwn ==
  /\ \A i, j \in DOMAIN userApiKeys :
       (/\ userApiKeys[i].user_id = userApiKeys[j].user_id
        /\ userApiKeys[i].key_name = userApiKeys[j].key_name) => i = j
  /\ \A i \in DOMAIN keyCalls :
       /\ keyCalls[i].fn = "get" =>
            keyCalls[i].result = IF keyCalls[i].user = NoUser THEN NoKey
                                 ELSE LastStored(i)
       /\ keyCalls[i].fn = "store" =>
            keyCalls[i].result = (keyCalls[i].user # NoUser)

\* C30: after any sequence of calls there is at most one row for a user and
\* a key name, get_user_api_key has returned to each caller the key that
\* caller stored last for the name while it is active (NULL otherwise), and
\* a call of either function without a signed-in user has returned false or
\* NULL and has changed no row.
C30_KeysAreOwn ==
  /\ []KeysAreOwn
  /\ [][(Len(keyCalls') > Len(keyCalls) /\ keyCalls'[Len(keyCalls')].user = NoUser)
          => userApiKeys' = userApiKeys]_vars

\* a user has stored a key twice under a name under which another user has
\* stored one too, and has then been returned the second of them
C30_Witness ==
  \E i, j, k, g \in DOMAIN keyCalls :
    /\ i < j /\ j < g
    /\ keyCalls[i].fn = "store" /\ keyCalls[i].user = User
    /\ keyCalls[j].fn = "store" /\ keyCalls[j].user = User
    /\ keyCalls[k].fn = "store" /\ keyCalls[k].user = OtherUser
    /\ k < g
    /\ keyCalls[g].fn = "get" /\ keyCalls[g].user = User
    /\ keyCalls[i].name = keyCalls[g].name
    /\ keyCalls[j].name = keyCalls[g].name
    /\ keyCalls[k].name = keyCalls[g].name
    /\ keyCalls[i].key # keyCalls[j].key
    /\ keyCalls[k].key # keyCalls[j].key
    /\ keyCalls[g].result = keyCalls[j].key

====
